---------------------------- MODULE Spec2Model ----------------------------
(***************************************************************************)
(* A model of the Wordle repository: the optimism testing module's         *)
(* call-site resolver and context builder (optimism.py) and the            *)
(* wordGuesser game (wordGuesser.py).                                      *)
(*                                                                         *)
(* Values of the caller's program are written as strings ("1", "fn_f");    *)
(* an exception raised by an evaluation is the value "NameError".          *)
(***************************************************************************)
EXTENDS Integers, Sequences, FiniteSets, TLC

(***************************************************************************)
(* Bounds of the model.                                                    *)
(***************************************************************************)
\* the caller's program makes at most this many diagnostic calls
MaxCalls == 4

(***************************************************************************)
(* The caller's module m.py, as ast.parse returns it.  A node keeps its    *)
(* kind, its lineno (0: the node has no lineno attribute), its source      *)
(* segment (for a Name its id, for a keyword its arg) and its child        *)
(* fields in the order of the class's _fields:                             *)
(*   Module(body)  Expr(value)  Call(func, args, keywords)                 *)
(*   keyword(value)  BinOp(left, right)  BoolOp(values)                    *)
(*   Subscript(value, slice)  ListComp(elt, generators)                    *)
(*   comprehension(target, iter, ifs)  If(test, body, orelse)              *)
(*   Compare(left, comparators)  With(items, body)                         *)
(*   withitem(context_expr, optional_vars)                                 *)
(* Operator and expression-context nodes (And, Add, Load, Store) have no   *)
(* lineno and are no Call, Name, Attribute or Subscript: no code modelled  *)
(* here tells them from absent nodes, and they are left out.               *)
(*                                                                         *)
(*    1  expect(a, 1) and expect(b, 2)                                     *)
(*    2  expect(f(f), f)                                                   *)
(*    3  trace(x + 1); expect(expr=a, value=1)                             *)
(*    4  list(map(expect, xs, xs))                                         *)
(*    5  expect(                                                           *)
(*    6      a, 1)                                                         *)
(*    7  expect([q for q in xs][0], 1)                                     *)
(*    8  expect(expect(a, 1), True)                                        *)
(*    9  expect([h(a) for h in fs][0], 1)                                  *)
(*   10  if a == 0:                                                        *)
(*   11      expect(                                                       *)
(*   12          expect(a, 1), True)                                       *)
(*   13      with f(a) as g:                                               *)
(*   14          expect(a, 1)                                              *)
(*   15      [q for q in xs if q]                                          *)
(***************************************************************************)
Node(kind, lineno, src, f1, f2, f3) ==
    [kind |-> kind, lineno |-> lineno, src |-> src,
     f1 |-> f1, f2 |-> f2, f3 |-> f3]

CallerAST == <<
    (*  1 *) Node("Module", 0, "", <<2, 12, 19, 25, 32, 40, 45, 56, 64, 77>>, <<>>, <<>>),
    (*  2 *) Node("Expr", 1, "", <<3>>, <<>>, <<>>),
    (*  3 *) Node("BoolOp", 1, "expect(a, 1) and expect(b, 2)", <<4, 8>>, <<>>, <<>>),
    (*  4 *) Node("Call", 1, "expect(a, 1)", <<5>>, <<6, 7>>, <<>>),
    (*  5 *) Node("Name", 1, "expect", <<>>, <<>>, <<>>),
    (*  6 *) Node("Name", 1, "a", <<>>, <<>>, <<>>),
    (*  7 *) Node("Constant", 1, "1", <<>>, <<>>, <<>>),
    (*  8 *) Node("Call", 1, "expect(b, 2)", <<9>>, <<10, 11>>, <<>>),
    (*  9 *) Node("Name", 1, "expect", <<>>, <<>>, <<>>),
    (* 10 *) Node("Name", 1, "b", <<>>, <<>>, <<>>),
    (* 11 *) Node("Constant", 1, "2", <<>>, <<>>, <<>>),
    (* 12 *) Node("Expr", 2, "", <<13>>, <<>>, <<>>),
    (* 13 *) Node("Call", 2, "expect(f(f), f)", <<14>>, <<15, 18>>, <<>>),
    (* 14 *) Node("Name", 2, "expect", <<>>, <<>>, <<>>),
    (* 15 *) Node("Call", 2, "f(f)", <<16>>, <<17>>, <<>>),
    (* 16 *) Node("Name", 2, "f", <<>>, <<>>, <<>>),
    (* 17 *) Node("Name", 2, "f", <<>>, <<>>, <<>>),
    (* 18 *) Node("Name", 2, "f", <<>>, <<>>, <<>>),
    (* 19 *) Node("Expr", 3, "", <<20>>, <<>>, <<>>),
    (* 20 *) Node("Call", 3, "trace(x + 1)", <<21>>, <<22>>, <<>>),
    (* 21 *) Node("Name", 3, "trace", <<>>, <<>>, <<>>),
    (* 22 *) Node("BinOp", 3, "x + 1", <<23>>, <<24>>, <<>>),
    (* 23 *) Node("Name", 3, "x", <<>>, <<>>, <<>>),
    (* 24 *) Node("Constant", 3, "1", <<>>, <<>>, <<>>),
    (* 25 *) Node("Expr", 3, "", <<26>>, <<>>, <<>>),
    (* 26 *) Node("Call", 3, "expect(expr=a, value=1)", <<27>>, <<>>, <<28, 30>>),
    (* 27 *) Node("Name", 3, "expect", <<>>, <<>>, <<>>),
    (* 28 *) Node("keyword", 3, "expr", <<29>>, <<>>, <<>>),
    (* 29 *) Node("Name", 3, "a", <<>>, <<>>, <<>>),
    (* 30 *) Node("keyword", 3, "value", <<31>>, <<>>, <<>>),
    (* 31 *) Node("Constant", 3, "1", <<>>, <<>>, <<>>),
    (* 32 *) Node("Expr", 4, "", <<33>>, <<>>, <<>>),
    (* 33 *) Node("Call", 4, "list(map(expect, xs, xs))", <<34>>, <<35>>, <<>>),
    (* 34 *) Node("Name", 4, "list", <<>>, <<>>, <<>>),
    (* 35 *) Node("Call", 4, "map(expect, xs, xs)", <<36>>, <<37, 38, 39>>, <<>>),
    (* 36 *) Node("Name", 4, "map", <<>>, <<>>, <<>>),
    (* 37 *) Node("Name", 4, "expect", <<>>, <<>>, <<>>),
    (* 38 *) Node("Name", 4, "xs", <<>>, <<>>, <<>>),
    (* 39 *) Node("Name", 4, "xs", <<>>, <<>>, <<>>),
    (* 40 *) Node("Expr", 5, "", <<41>>, <<>>, <<>>),
    (* 41 *) Node("Call", 5, "expect( a, 1)", <<42>>, <<43, 44>>, <<>>),
    (* 42 *) Node("Name", 5, "expect", <<>>, <<>>, <<>>),
    (* 43 *) Node("Name", 6, "a", <<>>, <<>>, <<>>),
    (* 44 *) Node("Constant", 6, "1", <<>>, <<>>, <<>>),
    (* 45 *) Node("Expr", 7, "", <<46>>, <<>>, <<>>),
    (* 46 *) Node("Call", 7, "expect([q for q in xs][0], 1)", <<47>>, <<48, 55>>, <<>>),
    (* 47 *) Node("Name", 7, "expect", <<>>, <<>>, <<>>),
    (* 48 *) Node("Subscript", 7, "[q for q in xs][0]", <<49>>, <<54>>, <<>>),
    (* 49 *) Node("ListComp", 7, "[q for q in xs]", <<50>>, <<51>>, <<>>),
    (* 50 *) Node("Name", 7, "q", <<>>, <<>>, <<>>),
    (* 51 *) Node("comprehension", 0, "", <<52>>, <<53>>, <<>>),
    (* 52 *) Node("Name", 7, "q", <<>>, <<>>, <<>>),
    (* 53 *) Node("Name", 7, "xs", <<>>, <<>>, <<>>),
    (* 54 *) Node("Constant", 7, "0", <<>>, <<>>, <<>>),
    (* 55 *) Node("Constant", 7, "1", <<>>, <<>>, <<>>),
    (* 56 *) Node("Expr", 8, "", <<57>>, <<>>, <<>>),
    (* 57 *) Node("Call", 8, "expect(expect(a, 1), True)", <<58>>, <<59, 63>>, <<>>),
    (* 58 *) Node("Name", 8, "expect", <<>>, <<>>, <<>>),
    (* 59 *) Node("Call", 8, "expect(a, 1)", <<60>>, <<61, 62>>, <<>>),
    (* 60 *) Node("Name", 8, "expect", <<>>, <<>>, <<>>),
    (* 61 *) Node("Name", 8, "a", <<>>, <<>>, <<>>),
    (* 62 *) Node("Constant", 8, "1", <<>>, <<>>, <<>>),
    (* 63 *) Node("Constant", 8, "True", <<>>, <<>>, <<>>),
    (* 64 *) Node("Expr", 9, "", <<65>>, <<>>, <<>>),
    (* 65 *) Node("Call", 9, "expect([h(a) for h in fs][0], 1)", <<66>>, <<67, 76>>, <<>>),
    (* 66 *) Node("Name", 9, "expect", <<>>, <<>>, <<>>),
    (* 67 *) Node("Subscript", 9, "[h(a) for h in fs][0]", <<68>>, <<75>>, <<>>),
    (* 68 *) Node("ListComp", 9, "[h(a) for h in fs]", <<69>>, <<72>>, <<>>),
    (* 69 *) Node("Call", 9, "h(a)", <<70>>, <<71>>, <<>>),
    (* 70 *) Node("Name", 9, "h", <<>>, <<>>, <<>>),
    (* 71 *) Node("Name", 9, "a", <<>>, <<>>, <<>>),
    (* 72 *) Node("comprehension", 0, "", <<73>>, <<74>>, <<>>),
    (* 73 *) Node("Name", 9, "h", <<>>, <<>>, <<>>),
    (* 74 *) Node("Name", 9, "fs", <<>>, <<>>, <<>>),
    (* 75 *) Node("Constant", 9, "0", <<>>, <<>>, <<>>),
    (* 76 *) Node("Constant", 9, "1", <<>>, <<>>, <<>>),
    (* 77 *) Node("If", 10, "", <<78>>, <<81, 89, 100>>, <<>>),
    (* 78 *) Node("Compare", 10, "a == 0", <<79>>, <<80>>, <<>>),
    (* 79 *) Node("Name", 10, "a", <<>>, <<>>, <<>>),
    (* 80 *) Node("Constant", 10, "0", <<>>, <<>>, <<>>),
    (* 81 *) Node("Expr", 11, "", <<82>>, <<>>, <<>>),
    (* 82 *) Node("Call", 11, "expect( expect(a, 1), True)", <<83>>, <<84, 88>>, <<>>),
    (* 83 *) Node("Name", 11, "expect", <<>>, <<>>, <<>>),
    (* 84 *) Node("Call", 12, "expect(a, 1)", <<85>>, <<86, 87>>, <<>>),
    (* 85 *) Node("Name", 12, "expect", <<>>, <<>>, <<>>),
    (* 86 *) Node("Name", 12, "a", <<>>, <<>>, <<>>),
    (* 87 *) Node("Constant", 12, "1", <<>>, <<>>, <<>>),
    (* 88 *) Node("Constant", 12, "True", <<>>, <<>>, <<>>),
    (* 89 *) Node("With", 13, "", <<90>>, <<95>>, <<>>),
    (* 90 *) Node("withitem", 0, "", <<91>>, <<94>>, <<>>),
    (* 91 *) Node("Call", 13, "f(a)", <<92>>, <<93>>, <<>>),
    (* 92 *) Node("Name", 13, "f", <<>>, <<>>, <<>>),
    (* 93 *) Node("Name", 13, "a", <<>>, <<>>, <<>>),
    (* 94 *) Node("Name", 13, "g", <<>>, <<>>, <<>>),
    (* 95 *) Node("Expr", 14, "", <<96>>, <<>>, <<>>),
    (* 96 *) Node("Call", 14, "expect(a, 1)", <<97>>, <<98, 99>>, <<>>),
    (* 97 *) Node("Name", 14, "expect", <<>>, <<>>, <<>>),
    (* 98 *) Node("Name", 14, "a", <<>>, <<>>, <<>>),
    (* 99 *) Node("Constant", 14, "1", <<>>, <<>>, <<>>),
    (* 100 *) Node("Expr", 15, "", <<101>>, <<>>, <<>>),
    (* 101 *) Node("ListComp", 15, "[q for q in xs if q]", <<102>>, <<103>>, <<>>),
    (* 102 *) Node("Name", 15, "q", <<>>, <<>>, <<>>),
    (* 103 *) Node("comprehension", 0, "", <<104>>, <<105>>, <<106>>),
    (* 104 *) Node("Name", 15, "q", <<>>, <<>>, <<>>),
    (* 105 *) Node("Name", 15, "xs", <<>>, <<>>, <<>>),
    (* 106 *) Node("Name", 15, "q", <<>>, <<>>, <<>>)
>>

NodeIds == 1..Len(CallerAST)

\* the root of the tree ast.parse returns
SrcNode == CHOOSE n \in NodeIds : CallerAST[n].kind = "Module"

\* ast.iter_child_nodes: the children of a node, field by field
Children(n) == CallerAST[n].f1 \o CallerAST[n].f2 \o CallerAST[n].f3

Range(s) == {s[i] : i \in 1..Len(s)}


(***************************************************************************)
(* walk_ast_in_order: the descendants of a node in execution order, the    *)
(* node itself last.                                                       *)
(***************************************************************************)
RECURSIVE walk_ast_in_order(_), WalkList(_)

WalkList(nodes) ==
    IF nodes = <<>> THEN <<>>
    ELSE walk_ast_in_order(Head(nodes)) \o WalkList(Tail(nodes))

walk_ast_in_order(node) ==
    LET n == CallerAST[node]
        inner ==
            CASE n.kind \in {"Module", "Expr"} -> WalkList(n.f1)
              [] n.kind = "BoolOp" -> WalkList(n.f1)
              [] n.kind = "BinOp" -> WalkList(n.f1) \o WalkList(n.f2)
              [] n.kind = "ListComp" -> WalkList(n.f2) \o WalkList(n.f1)
              [] n.kind = "Call" ->
                    WalkList(n.f1) \o WalkList(n.f2) \o WalkList(n.f3)
              [] n.kind = "Subscript" -> WalkList(n.f1) \o WalkList(n.f2)
              [] n.kind = "comprehension" ->
                    WalkList(n.f2) \o WalkList(n.f3) \o WalkList(n.f1)
              [] n.kind = "keyword" -> WalkList(n.f1)
              [] n.kind = "If" ->
                    WalkList(n.f1) \o WalkList(n.f2) \o WalkList(n.f3)
              [] n.kind = "With" -> WalkList(n.f1) \o WalkList(n.f1)
              [] n.kind = "Compare" -> WalkList(n.f1) \o WalkList(n.f2)
              [] n.kind = "withitem" -> WalkList(n.f1) \o WalkList(n.f2)
              [] OTHER -> <<>>      \* Name, Constant
    IN  inner \o <<node>>

\* the walk from every node of the caller's module
WalkOrder == [node \in NodeIds |-> walk_ast_in_order(node)]

(***************************************************************************)
(* ast.walk: breadth first, each node before its children.                 *)
(***************************************************************************)
RECURSIVE WalkQueue(_)
WalkQueue(todo) ==
    IF todo = <<>> THEN <<>>
    ELSE <<Head(todo)>> \o WalkQueue(Tail(todo) \o Children(Head(todo)))

ast_walk(node) == WalkQueue(<<node>>)

(***************************************************************************)
(* assign_parents(src_node): the parent attribute of every node, 0 (None)  *)
(* for the root.                                                           *)
(***************************************************************************)
assign_parents ==
    [n \in NodeIds |->
        IF \E m \in NodeIds : n \in Range(Children(m))
        THEN CHOOSE m \in NodeIds : n \in Range(Children(m))
        ELSE 0]

(***************************************************************************)
(* is_inside_call_func, on the tree as get_my_context leaves it: its second*)
(* assign_parents(arg_expr) has set arg_expr.parent to None.               *)
(***************************************************************************)
RECURSIVE is_inside_call_func(_, _)
is_inside_call_func(node, arg_expr) ==
    LET parent == IF node = arg_expr THEN 0 ELSE assign_parents[node]
    IN  IF parent = 0 THEN FALSE
        ELSE IF CallerAST[parent].kind = "Call"
                /\ CallerAST[parent].f1 = <<node>>
             THEN TRUE
             ELSE is_inside_call_func(parent, arg_expr)

(***************************************************************************)
(* The caller's frame: its globals and locals.  a is assigned before each  *)
(* run of a line; q and h are comprehension variables, bound nowhere       *)
(* outside their comprehension.  f returns its argument; xs is [1] and fs  *)
(* is [f].                                                                 *)
(***************************************************************************)
Frame(a) ==
    [expect |-> "fn_expect", trace |-> "fn_trace", list |-> "fn_list",
     map |-> "fn_map", f |-> "fn_f", a |-> a, b |-> "2", x |-> "3",
     xs |-> "list_1", fs |-> "list_f"]

Digits == <<"0", "1", "2", "3", "4", "5", "6", "7", "8", "9">>
IsDigit(v) == \E i \in 1..Len(Digits) : Digits[i] = v
DigitOf(v) == (CHOOSE i \in 1..Len(Digits) : Digits[i] = v) - 1
BoolText(b) == IF b THEN "True" ELSE "False"

\* the value of a binary +, of a call and of a subscript, from the values
\* of their operands
AddValues(l, r) ==
    IF l = "NameError" \/ r = "NameError" THEN "NameError"
    ELSE IF IsDigit(l) /\ IsDigit(r) /\ DigitOf(l) + DigitOf(r) < Len(Digits)
         THEN Digits[DigitOf(l) + DigitOf(r) + 1]
         ELSE "object"

\* the value of ==
EqualValues(l, r) ==
    IF l = "NameError" \/ r = "NameError" THEN "NameError"
    ELSE BoolText(l = r)

CallValue(fv, argv) ==
    IF fv = "NameError" \/ "NameError" \in Range(argv) THEN "NameError"
    ELSE IF fv = "fn_f" /\ Len(argv) = 1 THEN argv[1]
    ELSE IF fv = "fn_expect" /\ Len(argv) = 2
         THEN BoolText(argv[1] = argv[2])
    ELSE "object"

\* [q for q in xs] is a copy of xs, [h(a) for h in fs] is [f(a)]
ListCompValue(it, elt_kind) ==
    IF it = "NameError" THEN "NameError"
    ELSE IF it = "list_1" /\ elt_kind = "Name" THEN "list_1"
    ELSE IF it = "list_f" THEN "list_a"
    ELSE "object"

SubscriptValue(v, stack_frame) ==
    IF v = "NameError" THEN "NameError"
    ELSE IF v = "list_1" THEN "1"
    ELSE IF v = "list_a" THEN stack_frame["a"]
    ELSE "object"

(***************************************************************************)
(* evaluate_in_context: compile and eval of an expression node in copies   *)
(* of the frame's globals and locals.  "NameError" is the exception eval   *)
(* raises on a name the frame does not bind.  The iterable of a            *)
(* comprehension is evaluated in the frame, its element in the             *)
(* comprehension's own scope.                                              *)
(***************************************************************************)
RECURSIVE evaluate_in_context(_, _)
evaluate_in_context(node, stack_frame) ==
    LET n == CallerAST[node]
    IN  CASE n.kind = "Name" ->
                IF n.src \in DOMAIN stack_frame THEN stack_frame[n.src]
                ELSE "NameError"
          [] n.kind = "Constant" -> n.src
          [] n.kind = "BinOp" ->
                CHOOSE v \in
                    {AddValues(l, r) :
                        l \in {evaluate_in_context(n.f1[1], stack_frame)},
                        r \in {evaluate_in_context(n.f2[1], stack_frame)}} :
                    TRUE
          [] n.kind = "Call" ->
                CHOOSE v \in
                    {CallValue(fv, argv) :
                        fv \in {evaluate_in_context(n.f1[1], stack_frame)},
                        argv \in {[i \in 1..Len(n.f2) |->
                            evaluate_in_context(n.f2[i], stack_frame)]}} :
                    TRUE
          [] n.kind = "ListComp" ->
                CHOOSE v \in
                    {ListCompValue(it, CallerAST[n.f1[1]].kind) :
                        it \in {evaluate_in_context(
                                    CallerAST[n.f2[1]].f2[1], stack_frame)}} :
                    TRUE
          [] n.kind = "Compare" ->
                CHOOSE v \in
                    {EqualValues(l, r) :
                        l \in {evaluate_in_context(n.f1[1], stack_frame)},
                        r \in {evaluate_in_context(n.f2[1], stack_frame)}} :
                    TRUE
          [] n.kind = "Subscript" ->
                CHOOSE v \in
                    {SubscriptValue(val, stack_frame) :
                        val \in {evaluate_in_context(n.f1[1], stack_frame)}} :
                    TRUE
          [] OTHER -> "object"

(***************************************************************************)
(* The inputs of the model.                                                *)
(***************************************************************************)
Files == {"m.py", "<stdin>"}
Lines == {CallerAST[n].lineno : n \in NodeIds} \ {0}
Levels == {0, 1, 2}
SuiteNames == {"default", "extra"}
AValues == {"1", "2"}
DiagnosticFunctions == {"fn_expect", "fn_trace"}

(***************************************************************************)
(* find_call_nodes_on_line.  The three diagnostic functions pass           *)
(* themselves to get_my_context, never a name: call_matches takes its      *)
(* identity branch.  The result is [raised, nodes]: evaluating the callee  *)
(* of a call on the line can raise, and nothing catches it.                *)
(***************************************************************************)
\* the callee expression of a call node
FuncOf(call_node) == CallerAST[call_node].f1[1]

call_matches(call_node, frame, function) ==
    evaluate_in_context(FuncOf(call_node), frame) = function

\* the kinds that end the outward search: Call and the statement kinds
StopKinds ==
    {"Call", "Module", "Interactive", "Expression", "FunctionDef",
     "AsyncFunctionDef", "ClassDef", "Return", "Delete", "Assign",
     "AugAssign", "AnnAssign", "For", "AsyncFor", "While", "If", "With",
     "AsyncWith", "Raise", "Try", "Assert"}

\* the while loop over parents: the first ancestor of a stop kind, or 0
RECURSIVE LookOutwards(_)
LookOutwards(here) ==
    IF here = 0 \/ CallerAST[here].kind \in StopKinds THEN here
    ELSE LookOutwards(assign_parents[here])

\* a first loop that collects the matching calls last to first
PrimarySearchLastFirst(all_on_line, frame, function) ==
    LET Matches(child) ==
            CallerAST[child].kind = "Call"
            /\ evaluate_in_context(FuncOf(child), frame) = function
        found == SelectSeq(all_on_line, Matches)
    IN  [raised |-> "",
         nodes |-> [i \in 1..Len(found) |-> found[Len(found) + 1 - i]]]

\* the first loop: the nodes of the line, and the matching calls among them
PrimarySearch(all_on_line, frame, function) ==
    LET IsCall(child) == CallerAST[child].kind = "Call"
        Raises(child) ==
            IsCall(child)
            /\ evaluate_in_context(FuncOf(child), frame) = "NameError"
        Matches(child) == IsCall(child) /\ call_matches(child, frame, function)
    IN  IF \E i \in 1..Len(all_on_line) : Raises(all_on_line[i])
        THEN [raised |-> "NameError", nodes |-> <<>>]
        ELSE [raised |-> "", nodes |-> SelectSeq(all_on_line, Matches)]

\* the second loop: for every node of the line, its nearest enclosing stop
\* node, appended when it is a matching call
OutwardSearch(all_on_line, frame, function) ==
    LET IsCallHere(h) == h # 0 /\ CallerAST[h].kind = "Call"
        Raises(h) ==
            IsCallHere(h)
            /\ evaluate_in_context(FuncOf(h), frame) = "NameError"
        Matches(h) == IsCallHere(h) /\ call_matches(h, frame, function)
    IN  CHOOSE r \in
            {IF \E i \in 1..Len(here) : Raises(here[i])
             THEN [raised |-> "NameError", nodes |-> <<>>]
             ELSE [raised |-> "", nodes |-> SelectSeq(here, Matches)] :
                here \in {[i \in 1..Len(all_on_line) |->
                    LookOutwards(assign_parents[all_on_line[i]])]}} : TRUE

find_call_nodes_on_line(node, frame, function, lineno) ==
    LET OnLine(child) ==
            CallerAST[child].lineno # 0 /\ CallerAST[child].lineno = lineno
    IN  CHOOSE r \in
            {IF primary.raised # "" \/ Len(primary.nodes) # 0 THEN primary
             ELSE OutwardSearch(all_on_line, frame, function) :
                <<all_on_line, primary>> \in
                    {<<onl, PrimarySearch(onl, frame, function)>> :
                        onl \in {SelectSeq(WalkOrder[node], OnLine)}}} : TRUE

\* find_call_nodes_on_line(src_node, frame, function_or_name, lineno) for
\* every frame, function and line of the model
CandidatesOn ==
    [frame \in {Frame(a) : a \in AValues}, function \in DiagnosticFunctions,
     lineno \in Lines |->
        find_call_nodes_on_line(SrcNode, frame, function, lineno)]

(***************************************************************************)
(* get_my_context.                                                         *)
(***************************************************************************)
\* function.__name__
FunctionName(function) ==
    CASE function = "fn_expect" -> "expect"
      [] function = "fn_trace" -> "trace"
      [] OTHER -> "expectType"

\* open(filename, 'r') succeeds for the module's file, not for the
\* pseudo-file of an interactive session
Readable(filename) == filename = "m.py"

Key(function_name, filename, lineno) == <<function_name, filename, lineno>>

\* the count of a key, 0 for a key the dictionary does not hold
Count(counters, key) == IF key \in DOMAIN counters THEN counters[key] ELSE 0

\* COMPLETED_PER_LINE.setdefault(function_name, {}).setdefault(key, 0)
SetDefault(counters, key) ==
    IF key \in DOMAIN counters THEN counters
    ELSE [k \in DOMAIN counters \cup {key} |->
            IF k = key THEN 0 ELSE counters[k]]

\* COMPLETED_PER_LINE[function_name][(filename, lineno)] += 1
Increment(counters, key) ==
    [k \in DOMAIN counters \cup {key} |->
        IF k = key THEN Count(counters, key) + 1 ELSE counters[k]]

\* a selection that never moves on from the first candidate
SelectFirst(candidates, prev_this_line) == candidates[1]

\* candidates[prev_this_line % len(candidates)]
SelectCandidate(candidates, prev_this_line) ==
    candidates[(prev_this_line % Len(candidates)) + 1]

\* get_expr_src and get_ref_src, by ast.get_source_segment
get_expr_src(call_node) == CallerAST[CallerAST[call_node].f2[1]].src
get_ref_src(node) == CallerAST[node].src

\* deepish_copy of the values this frame holds: copy.deepcopy returns an
\* integer, a string or a function as it is
deepish_copy(obj) == obj

IsReference(node) ==
    CallerAST[node].kind \in {"Attribute", "Subscript", "Name"}

NoValues == [k \in {} |-> ""]

\* One turn of the loop over ast.walk(arg_expr), for a reference node:
\* before and after are [raised, values, relevant].
VisitReference(before, node, frame, arg_expr) ==
    LET key == get_ref_src(node)
    IN  IF before.raised # "" THEN before
        ELSE IF key \in DOMAIN before.values THEN before
        ELSE CHOOSE after \in
            {IF val = "NameError"
             THEN [before EXCEPT !.raised = "NameError"]
             ELSE [raised |-> "",
                   values |-> [k \in DOMAIN before.values \cup {key} |->
                                 IF k = key THEN deepish_copy(val)
                                 ELSE before.values[k]],
                   relevant |->
                     IF ~is_inside_call_func(node, arg_expr)
                     THEN before.relevant \cup {key}
                     ELSE before.relevant] :
                val \in {evaluate_in_context(node, frame)}} : TRUE

RECURSIVE WalkReferences(_, _, _, _)
WalkReferences(refs, i, frame, arg_expr) ==
    IF i = 0 THEN [raised |-> "", values |-> NoValues, relevant |-> {}]
    ELSE CHOOSE after \in
            {VisitReference(before, refs[i], frame, arg_expr) :
                before \in {WalkReferences(refs, i - 1, frame, arg_expr)}} :
            TRUE

\* The result of one call: the context returned (NoContext when an
\* exception left get_my_context), the exception, the counters afterwards,
\* what was printed to stderr, the candidates and the selected call node.
NoContext == [raised |-> TRUE]

Returned(context, counters, stderr, candidates, match) ==
    [context |-> context, raised |-> "", counters |-> counters,
     stderr |-> stderr, candidates |-> candidates, match |-> match]

Raised(exception, counters, candidates, match) ==
    [context |-> NoContext, raised |-> exception, counters |-> counters,
     stderr |-> <<>>, candidates |-> candidates, match |-> match]

\* from the selection of the candidate to the return
BuildContext(match, candidates, filename, lineno, frame, counted) ==
    IF Len(CallerAST[match].f2) = 0
    THEN Raised("IndexError", counted, candidates, match)
    ELSE CHOOSE r \in
        {IF walked.raised # ""
         THEN Raised(walked.raised, counted, candidates, match)
         ELSE Returned([file |-> filename, line |-> lineno,
                        src |-> "m.py source", expr |-> arg_expr,
                        expr_src |-> get_expr_src(match),
                        values |-> walked.values,
                        relevant |-> walked.relevant],
                       counted, <<>>, candidates, match) :
            <<arg_expr, walked>> \in
                {<<arg, WalkReferences(refs, Len(refs), frame, arg)>> :
                    arg \in {CallerAST[match].f2[1]},
                    refs \in {SelectSeq(ast_walk(CallerAST[match].f2[1]),
                                        IsReference)}}} : TRUE

\* a warning given from detail level 1 on
WarnAtDetailOne(detail) ==
    IF detail >= 1
    THEN <<"Warning: unable to get calling code's source.",
           "Call is on line">>
    ELSE <<>>

\* what the except branch of the open prints to stderr
UnreadableWarnings(detail) ==
    IF detail >= 2
    THEN <<"Warning: unable to get calling code's source.",
           "Call is on line">>
    ELSE <<>>

get_my_context(function, filename, lineno, frame, counters, detail) ==
    LET located == [file |-> filename, line |-> lineno]
        key == Key(FunctionName(function), filename, lineno)
    IN  IF ~Readable(filename)
        THEN Returned(located, counters, UnreadableWarnings(detail), <<>>, 0)
        ELSE CHOOSE r \in
            {IF found.raised # ""
             THEN Raised(found.raised, counters, <<>>, 0)
             ELSE IF Len(found.nodes) = 0
             THEN Returned(located, counters,
                           <<"Warning: unable to find call node">>, <<>>, 0)
             ELSE BuildContext(
                    SelectCandidate(found.nodes,
                                    SetDefault(counters, key)[key]),
                    found.nodes, filename, lineno, frame,
                    Increment(SetDefault(counters, key), key)) :
                found \in {CandidatesOn[frame, function, lineno]}} : TRUE

(***************************************************************************)
(* The state.                                                              *)
(***************************************************************************)
VARIABLES
    COMPLETED_PER_LINE,  \* <<function name, file, line>> -> count
    DETAIL_LEVEL,
    ALL_CASES,           \* suite name -> list of test cases
    CURRENT_SUITE_NAME,  \* _CURRENT_SUITE_NAME
    caller,              \* the caller's program: the line it is running
    call,                \* the last diagnostic call and what it did
    resolved,            \* history: per key, the builds that selected a call
    skipped,             \* history: keys of calls a run of their line left out
    managed,             \* history: suite functions called since that call
    nCalls               \* history: diagnostic calls made so far

optVars == <<COMPLETED_PER_LINE, DETAIL_LEVEL, ALL_CASES, CURRENT_SUITE_NAME,
             caller, call, resolved, skipped, managed, nCalls>>

\* wordGuesser.py: a game of playGame, and a call of letterHints
VARIABLES
    game,                \* playGame: where it is, its argument and locals
    stdout,              \* the lines printed, prompts of input included
    stdin,               \* history: the lines read by input
    callIn,              \* history: Len(stdin) when getGuess was called
    callOut,             \* history: Len(stdout) when getGuess was called
    hintCall             \* the arguments and the result of letterHints

wgVars == <<game, stdout, stdin, callIn, callOut>>

\* optimism.py: a value copied by deepish_copy while its owner lives on
VARIABLES
    heap,                \* the objects: id -> [kind, val, items]
    snap                 \* the caller's object, its copy, and history

copyVars == <<heap, snap>>

\* optimism.py: calls of the source scanners on their own
VARIABLES
    scan,                \* unquoted_enumerate: its arguments and its result
    srcCall,             \* get_expr_src: its arguments and its results
    walk                 \* walk_ast_in_order, find_call_nodes_on_line: same

\* optimism.py: test cases, their managers and their checks
VARIABLES
    cases,               \* the TestCase objects, in order of creation
    manager_failed,      \* manager -> its any_failed
    SKIP_ON_FAILURE,     \* SKIP_ON_FAILURE
    check,               \* the last call on a case or a suite and its effect
    nOps,                \* history: calls made on cases and suites
    streams,             \* the objects sys.stdout, sys.stdin, builtins.input
    created              \* history: suite -> cases created in it since reset

caseVars ==
    <<cases, manager_failed, SKIP_ON_FAILURE, check, nOps, streams>>

libOther == <<copyVars, scan, srcCall, walk, caseVars>>

libVars == <<libOther, created>>

AllKeys == {"expect", "trace"} \X Files \X Lines

\* between two lines of the program whose code is in file
Idle(file) == [file |-> file, line |-> 0, a |-> "1", pending |-> <<>>]

NoCall ==
    [function |-> "", node |-> 0, file |-> "", line |-> 0,
     context |-> NoContext, raised |-> "", gmc_raised |-> "",
     stderr |-> <<>>, candidates |-> <<>>, match |-> 0, nth |-> 0]

(***************************************************************************)
(* What running a line of the caller's module does: the calls of the       *)
(* diagnostic functions it makes, in the order it makes them.  A call of   *)
(* map whose first argument is a diagnostic function calls it with no call *)
(* node of its own (xs has one element: once).                             *)
(***************************************************************************)
StatementsOn(line) ==
    SelectSeq(CallerAST[SrcNode].f1, LAMBDA st : CallerAST[st].lineno = line)

\* the nodes the interpreter evaluates when it runs statements, in order:
\* an if runs the branch its test selects, a with its items and its body,
\* a simple statement its expressions
RECURSIVE Executed(_, _)
Executed(statements, frame) ==
    IF statements = <<>> THEN <<>>
    ELSE
        LET st == CallerAST[Head(statements)]
            first ==
                CASE st.kind = "If" ->
                        WalkList(st.f1)
                        \o Executed(IF evaluate_in_context(st.f1[1], frame)
                                        = "True"
                                    THEN st.f2 ELSE st.f3, frame)
                  [] st.kind = "With" ->
                        WalkList(st.f1) \o Executed(st.f2, frame)
                  [] OTHER -> walk_ast_in_order(Head(statements))
        IN  first \o Executed(Tail(statements), frame)

\* the diagnostic function a call node invokes, "" when it invokes none
Invokes(n, frame) ==
    IF CallerAST[n].kind # "Call" THEN ""
    ELSE CHOOSE fn \in
        {IF fv \in DiagnosticFunctions THEN fv
         ELSE IF fv = "fn_map"
                 /\ evaluate_in_context(CallerAST[n].f2[1], frame)
                        \in DiagnosticFunctions
         THEN evaluate_in_context(CallerAST[n].f2[1], frame)
         ELSE "" :
            fv \in {evaluate_in_context(FuncOf(n), frame)}} : TRUE

DiagnosticCallsOn(line, frame) ==
    CHOOSE entries \in
        {[i \in 1..Len(nodes) |->
            [node |-> nodes[i], function |-> Invokes(nodes[i], frame),
             direct |-> evaluate_in_context(FuncOf(nodes[i]), frame)
                            \in DiagnosticFunctions]] :
            nodes \in {SelectSeq(Executed(StatementsOn(line), frame),
                                 LAMBDA n : Invokes(n, frame) # "")}} : TRUE

\* the calls of every line, for every value of a
CallsOfLine ==
    [line \in Lines, a \in AValues |-> DiagnosticCallsOn(line, Frame(a))]

\* f_lineno while the call runs: the line of the call node, or, on
\* interpreters that report the line being evaluated, that of its last
\* positional argument; every statement of an interactive session is line 1
FrameLines(file, node) ==
    IF file = "<stdin>" THEN {1}
    ELSE {CallerAST[node].lineno}
         \cup {CallerAST[CallerAST[node].f2[i]].lineno :
                 i \in {Len(CallerAST[node].f2)} \ {0}}

\* the calls still to make after a call returned: a false operand ends
\* its "and"
RECURSIVE IsUnder(_, _)
IsUnder(n, ancestor) ==
    IF n = 0 THEN FALSE
    ELSE IF assign_parents[n] = ancestor THEN TRUE
    ELSE IsUnder(assign_parents[n], ancestor)

Remaining(entry, returned, rest) ==
    LET parent == assign_parents[entry.node]
    IN  IF returned = "False" /\ parent # 0
           /\ CallerAST[parent].kind = "BoolOp"
        THEN SelectSeq(rest, LAMBDA e : ~IsUnder(e.node, parent))
        ELSE rest

\* the keys under which the calls of entries resolve
KeysOf(file, entries) ==
    UNION {{Key(FunctionName(entries[i].function), file, ln) :
                ln \in FrameLines(file, entries[i].node)} :
            i \in 1..Len(entries)}

\* optimism after import, before the caller's program runs
OptimismImported(files) ==
    /\ COMPLETED_PER_LINE = [k \in {} |-> 0]
    /\ DETAIL_LEVEL = 0
    /\ ALL_CASES = [n \in {} |-> <<>>]
    /\ CURRENT_SUITE_NAME = "default"
    /\ \E file \in files : caller = Idle(file)
    /\ call = NoCall
    /\ resolved = [k \in AllKeys |-> 0]
    /\ skipped = {}
    /\ managed = {}
    /\ nCalls = 0

\* no game is played
NoGame ==
    /\ game = [pc |-> "idle", hidden |-> <<>>, num |-> 0, guess |-> <<>>,
               tries |-> 0]
    /\ stdout = <<>>
    /\ stdin = <<>>
    /\ callIn = 0
    /\ callOut = 0

NoHintCall == [hidden |-> <<>>, guess |-> <<>>, result |-> <<>>,
               called |-> FALSE]

\* nothing is copied
NoCopy ==
    /\ heap = <<>>
    /\ snap = [root |-> 0, copy |-> 0, frozen |-> <<>>, mutations |-> 0]

NoScan == [src |-> <<>>, start_index |-> 0, result |-> <<>>,
           called |-> FALSE]

NoSrcCall == [sample |-> 0, exact |-> <<>>, scanned |-> <<>>,
              called |-> FALSE]

NoWalk == [op |-> "", node |-> 0, function |-> "", a |-> "", lineno |-> 0,
           order |-> <<>>, found |-> [raised |-> "", nodes |-> <<>>],
           called |-> FALSE]

Managers == {"m1", "m2"}

NoCheck == [op |-> "", case |-> 0, returned |-> "", raised |-> "",
            report |-> <<>>]

\* an object bound to sys.stdout, sys.stdin or builtins.input: what it is,
\* and the depth of the run that made it (0: it was there before any run)
Object(kind, depth) == <<kind, depth>>

\* the interpreter's own streams and input function
Console ==
    [stdout |-> Object("console", 0), stdin |-> Object("console", 0),
     input |-> Object("input", 0)]

\* no test case exists yet; the managers were created by testFunction
NoCases ==
    /\ cases = <<>>
    /\ streams = Console
    /\ manager_failed = [m \in Managers |-> FALSE]
    /\ SKIP_ON_FAILURE = "case"
    /\ check = NoCheck
    /\ nOps = 0
    /\ created = [n \in SuiteNames |-> <<>>]

\* the helper functions of optimism are not called on their own
LibIdle ==
    /\ NoCopy
    /\ scan = NoScan
    /\ srcCall = NoSrcCall
    /\ walk = NoWalk
    /\ NoCases

Init ==
    /\ OptimismImported(Files)
    /\ NoGame
    /\ hintCall = NoHintCall
    /\ LibIdle

\* the caller's program reaches one of its lines
StartLine ==
    \E line \in Lines, a \in AValues :
        /\ caller.line = 0
        /\ nCalls < MaxCalls
        /\ \E entries \in {CallsOfLine[line, a]} :
            /\ entries # <<>>
            /\ caller' = [file |-> caller.file, line |-> line, a |-> a,
                          pending |-> entries]
        /\ UNCHANGED <<COMPLETED_PER_LINE, DETAIL_LEVEL, ALL_CASES,
                       CURRENT_SUITE_NAME, call, resolved, skipped, managed,
                       nCalls>>
        /\ UNCHANGED <<wgVars, hintCall, libVars>>

(***************************************************************************)
(* One call of a diagnostic function from the caller's line.  needs_src:   *)
(* trace formats ctx['expr_src'] without a default, expect and expectType  *)
(* read the context with get.  An exception ends the run of the line.      *)
(***************************************************************************)
Diagnose(function, needs_src) ==
    /\ caller.line # 0
    /\ nCalls < MaxCalls
    /\ \E lineno \in FrameLines(caller.file, Head(caller.pending).node) :
       \E got \in {get_my_context(function, caller.file, lineno,
                                  Frame(caller.a), COMPLETED_PER_LINE,
                                  DETAIL_LEVEL)} :
       \E raised \in
            {IF got.raised # "" THEN got.raised
             ELSE IF needs_src /\ "expr_src" \notin DOMAIN got.context
             THEN "KeyError"
             ELSE ""} :
       \E rest \in
            {IF raised # "" THEN <<>>
             ELSE Remaining(Head(caller.pending),
                            IF Head(caller.pending).direct
                            THEN evaluate_in_context(
                                    Head(caller.pending).node,
                                    Frame(caller.a))
                            ELSE "True",
                            Tail(caller.pending))} :
        LET entry == Head(caller.pending)
            key == Key(FunctionName(function), caller.file, lineno)
        IN  /\ COMPLETED_PER_LINE' = got.counters
            /\ call' = [function |-> function,
                        node |-> IF entry.direct THEN entry.node ELSE 0,
                        file |-> caller.file, line |-> lineno,
                        context |-> got.context, raised |-> raised,
                        gmc_raised |-> got.raised, stderr |-> got.stderr,
                        candidates |-> got.candidates, match |-> got.match,
                        nth |-> IF got.match # 0 THEN resolved[key] ELSE 0]
            /\ resolved' = IF got.match # 0
                           THEN [resolved EXCEPT ![key] = @ + 1]
                           ELSE resolved
            /\ skipped' = skipped \cup
                    (KeysOf(caller.file, Tail(caller.pending))
                        \ KeysOf(caller.file, rest))
            /\ caller' = IF rest = <<>> THEN Idle(caller.file)
                         ELSE [caller EXCEPT !.pending = rest]
            /\ managed' = {}
            /\ nCalls' = nCalls + 1
            /\ UNCHANGED <<DETAIL_LEVEL, ALL_CASES, CURRENT_SUITE_NAME>>
            /\ UNCHANGED <<wgVars, hintCall, libVars>>

expect ==
    /\ caller.pending # <<>>
    /\ Head(caller.pending).function = "fn_expect"
    /\ Diagnose("fn_expect", FALSE)

trace ==
    /\ caller.pending # <<>>
    /\ Head(caller.pending).function = "fn_trace"
    /\ Diagnose("fn_trace", TRUE)

detailLevel ==
    \E level \in Levels :
        /\ caller.line = 0
        /\ DETAIL_LEVEL' = level
        /\ UNCHANGED <<COMPLETED_PER_LINE, ALL_CASES, CURRENT_SUITE_NAME,
                       caller, call, resolved, skipped, managed, nCalls>>
        /\ UNCHANGED <<wgVars, hintCall, libVars>>

startTestSuite ==
    \E name \in SuiteNames :
        /\ caller.line = 0
        /\ CURRENT_SUITE_NAME' = name
        /\ managed' = managed \cup {"startTestSuite"}
        /\ UNCHANGED <<COMPLETED_PER_LINE, DETAIL_LEVEL, ALL_CASES,
                       caller, call, resolved, skipped, nCalls>>
        /\ UNCHANGED <<wgVars, hintCall, libVars>>

currentTestSuite == CURRENT_SUITE_NAME

resetTestSuite ==
    \E suiteName \in SuiteNames \cup {"None"} :
        LET name == IF suiteName = "None" THEN currentTestSuite
                    ELSE suiteName
        IN  /\ caller.line = 0
            /\ ALL_CASES' = [n \in DOMAIN ALL_CASES \cup {name} |->
                                IF n = name THEN <<>> ELSE ALL_CASES[n]]
            /\ managed' = managed \cup {"resetTestSuite"}
            /\ created' = [created EXCEPT ![name] = <<>>]
            /\ UNCHANGED <<COMPLETED_PER_LINE, DETAIL_LEVEL,
                           CURRENT_SUITE_NAME, caller, call, resolved,
                           skipped, nCalls>>
            /\ UNCHANGED <<wgVars, hintCall, libOther>>

\* a deleteAllTestSuites that resets the per-line counters as well
deleteAllAndCounters ==
    /\ caller.line = 0
    /\ CURRENT_SUITE_NAME' = "default"
    /\ ALL_CASES' = [n \in {} |-> <<>>]
    /\ COMPLETED_PER_LINE' = [k \in {} |-> 0]
    /\ managed' = managed \cup {"deleteAllTestSuites"}
    /\ created' = [n \in SuiteNames |-> <<>>]
    /\ UNCHANGED <<DETAIL_LEVEL, caller, call, resolved, skipped, nCalls>>
    /\ UNCHANGED <<wgVars, hintCall, libOther>>

deleteAllTestSuites ==
    /\ caller.line = 0
    /\ CURRENT_SUITE_NAME' = "default"
    /\ ALL_CASES' = [n \in {} |-> <<>>]
    /\ managed' = managed \cup {"deleteAllTestSuites"}
    /\ created' = [n \in SuiteNames |-> <<>>]
    /\ UNCHANGED <<COMPLETED_PER_LINE, DETAIL_LEVEL, caller, call,
                   resolved, skipped, nCalls>>
    /\ UNCHANGED <<wgVars, hintCall, libOther>>

(***************************************************************************)
(* wordGuesser.py.  A word is a sequence of letters; a printed line is     *)
(* [kind, text, n]: what it says, with the word and the number it shows.   *)
(***************************************************************************)
\* letterHints is called with words of at most this many letters
MaxLen == 3
\* a game reads at most this many lines
MaxInputs == 8

Alphabet == {"a", "b", "c"}
Words == UNION {[1..k -> Alphabet] : k \in 0..MaxLen}

\* guess[i] == hidden[i] with i past the end of hidden
IndexError == <<"IndexError">>

\* guess[i] in hidden
In(letter, hidden) == \E j \in 1..Len(hidden) : hidden[j] = letter

\* the body of the for loop, from i on (i counts from 1 here)
RECURSIVE HintLoop(_, _, _, _)
HintLoop(hidden, guess, i, newString) ==
    IF i > Len(guess) THEN newString
    ELSE IF i > Len(hidden) THEN IndexError
    ELSE HintLoop(hidden, guess, i + 1,
            Append(newString,
                   IF guess[i] = hidden[i] THEN "@"
                   ELSE IF In(guess[i], hidden) THEN "*"
                   ELSE "-"))

\* a letterHints that marks every letter not in its place as absent
letterHintsExact(hidden, guess) ==
    IF Len(guess) > Len(hidden) THEN IndexError
    ELSE [i \in 1..Len(guess) |->
            IF guess[i] = hidden[i] THEN "@" ELSE "-"]

letterHints(hidden, guess) == HintLoop(hidden, guess, 1, <<>>)

Out(kind, text, n) == [kind |-> kind, text |-> text, n |-> n]

\* the print calls before the word's length is printed
IntroPrints == 11
Intro == [i \in 1..IntroPrints |-> Out("intro", <<>>, i)]
WordLength(hidden) == Out("length", <<>>, Len(hidden))

\* input's prompt and the message of getGuess
Prompt(num) == Out("prompt", <<>>, num)
MustGuess(num) == Out("must", <<>>, num)

\* a test that lets longer lines through
AcceptedLonger(var, num) == Len(var) >= num

\* the test of getGuess's while loop, negated
Accepted(var, num) == Len(var) = num

\* a closing line whose middle range ends one try late
ClosingLineLate(tries) ==
    IF tries = 1 THEN Out("wow", <<>>, 0)
    ELSE IF tries < 8 THEN Out("great", <<>>, tries)
    ELSE Out("plain", <<>>, tries)

\* the last two prints of playGame
Congratulations(hidden) == Out("congratulations", hidden, 0)
ClosingLine(tries) ==
    IF tries = 1 THEN Out("wow", <<>>, 0)
    ELSE IF tries < 7 THEN Out("great", <<>>, tries)
    ELSE Out("plain", <<>>, tries)

\* the words played and the lines typed
GameWords == {<<"a", "b">>, <<"a", "a">>, <<"a">>}
InputLines == {<<"a", "b">>, <<"b", "a">>, <<"a", "a">>, <<"a">>}

\* playGame(hidden) is called
GameStarts ==
    /\ \E hidden \in GameWords :
        game = [pc |-> "start", hidden |-> hidden, num |-> 0,
                guess |-> <<>>, tries |-> 0]
    /\ stdout = <<>>
    /\ stdin = <<>>
    /\ callIn = 0
    /\ callOut = 0

\* from the call to the first input of getGuess
playGame ==
    /\ game.pc = "start"
    /\ game' = [game EXCEPT !.pc = "getGuess", !.tries = 0,
                            !.num = Len(game.hidden)]
    /\ stdout' = stdout \o Intro
                    \o <<WordLength(game.hidden), Prompt(Len(game.hidden))>>
    /\ callIn' = Len(stdin)
    /\ callOut' = Len(stdout) + IntroPrints + 1
    /\ UNCHANGED <<stdin, optVars, hintCall, libVars>>

\* input returns a line: getGuess returns it, or prints its message and
\* prompts again
getGuess ==
    \E var \in InputLines :
        /\ game.pc \in {"getGuess", "getGuessAgain"}
        /\ Len(stdin) < MaxInputs
        /\ stdin' = Append(stdin, var)
        /\ IF Accepted(var, game.num)
           THEN /\ game' = [game EXCEPT
                                !.guess = var,
                                !.pc = IF game.pc = "getGuess" THEN "while"
                                       ELSE "counted"]
                /\ UNCHANGED stdout
           ELSE /\ stdout' = stdout \o <<MustGuess(game.num), Prompt(game.num)>>
                /\ UNCHANGED game
        /\ UNCHANGED <<callIn, callOut, optVars, hintCall, libVars>>

\* stdin is at its end: input raises EOFError and ends playGame
EndOfInput ==
    /\ game.pc \in {"getGuess", "getGuessAgain"}
    /\ game' = [game EXCEPT !.pc = "EOFError"]
    /\ UNCHANGED <<stdout, stdin, callIn, callOut, optVars, hintCall, libVars>>

\* tries += 1, after the getGuess of the loop's body returned
CountGuess ==
    /\ game.pc = "counted"
    /\ game' = [game EXCEPT !.tries = @ + 1, !.pc = "while"]
    /\ UNCHANGED <<stdout, stdin, callIn, callOut, optVars, hintCall, libVars>>

\* a loop body that prompts before it prints the hint
HintAfterPrompt ==
    /\ game.pc = "while"
    /\ game.guess # game.hidden
    /\ stdout' = stdout \o <<Prompt(game.num),
                             Out("hint",
                                 letterHints(game.hidden, game.guess), 0)>>
    /\ callIn' = Len(stdin)
    /\ callOut' = Len(stdout) + 1
    /\ game' = [game EXCEPT !.pc = "getGuessAgain"]
    /\ UNCHANGED <<stdin, optVars, hintCall, libVars>>

\* the body of the while loop, to the input of its getGuess
WrongGuess ==
    /\ game.pc = "while"
    /\ game.guess # game.hidden
    /\ stdout' = stdout \o <<Out("hint", letterHints(game.hidden, game.guess),
                                 0),
                             Prompt(game.num)>>
    /\ callIn' = Len(stdin)
    /\ callOut' = Len(stdout) + 1
    /\ game' = [game EXCEPT !.pc = "getGuessAgain"]
    /\ UNCHANGED <<stdin, optVars, hintCall, libVars>>

\* after the while loop
RightGuess ==
    /\ game.pc = "while"
    /\ game.guess = game.hidden
    /\ stdout' = stdout \o <<Congratulations(game.hidden),
                             ClosingLine(game.tries + 1)>>
    /\ game' = [game EXCEPT !.tries = @ + 1, !.pc = "done"]
    /\ UNCHANGED <<stdin, callIn, callOut, optVars, hintCall, libVars>>

\* letterHints is called with two words
HintCalls ==
    \E hidden \in Words, guess \in Words :
        hintCall = [hidden |-> hidden, guess |-> guess, result |-> <<>>,
                    called |-> FALSE]

ReturnHints ==
    /\ ~hintCall.called
    /\ hintCall' = [hintCall EXCEPT
                        !.result = letterHints(hintCall.hidden,
                                               hintCall.guess),
                        !.called = TRUE]
    /\ UNCHANGED <<wgVars, optVars, libVars>>

\* the caller's program: diagnostic calls and changes of the detail level
Next ==
    \/ StartLine
    \/ expect
    \/ trace
    \/ detailLevel

\* the caller's program: diagnostic calls and suite management
NextSuites ==
    \/ StartLine
    \/ expect
    \/ trace
    \/ startTestSuite
    \/ resetTestSuite
    \/ deleteAllTestSuites

\* a game of playGame
NextGame ==
    \/ playGame
    \/ getGuess
    \/ EndOfInput
    \/ CountGuess
    \/ WrongGuess
    \/ RightGuess

\* a call of letterHints
NextHints == ReturnHints

vars == <<optVars, wgVars, hintCall, libVars>>

Spec == Init /\ [][Next]_vars

SpecSuites == Init /\ [][NextSuites]_vars

InitGame ==
    /\ OptimismImported({"m.py"})
    /\ GameStarts
    /\ hintCall = NoHintCall
    /\ LibIdle

SpecGame == InitGame /\ [][NextGame]_vars

InitHints ==
    /\ OptimismImported({"m.py"})
    /\ NoGame
    /\ HintCalls
    /\ LibIdle

SpecHints == InitHints /\ [][NextHints]_vars

(***************************************************************************)
(* deepish_copy on objects that have an identity.  The heap is a sequence  *)
(* of objects, an object's id its index; items are ids: the elements of a  *)
(* list or tuple, the attributes of a module or of an instance.  "opaque"  *)
(* is an instance copy.deepcopy raises on and copy.copy copies (one        *)
(* holding a lock); on a module both raise.  The objects are trees, so     *)
(* the memo never answers.                                                 *)
(***************************************************************************)
MaxMutations == 2

Obj(kind, val, items) == [kind |-> kind, val |-> val, items |-> items]

\* the caller's objects: the root is object 1, the last two are integers
CallerObjects ==
    {<<Obj("int", 1, <<>>), Obj("int", 2, <<>>)>>,
     <<Obj("list", 0, <<2>>), Obj("int", 1, <<>>), Obj("int", 2, <<>>)>>,
     <<Obj("list", 0, <<2>>), Obj("list", 0, <<3>>), Obj("int", 1, <<>>),
       Obj("int", 2, <<>>)>>,
     <<Obj("opaque", 0, <<2>>), Obj("list", 0, <<3>>), Obj("int", 1, <<>>),
       Obj("int", 2, <<>>)>>,
     <<Obj("module", 0, <<2>>), Obj("int", 1, <<>>), Obj("int", 2, <<>>)>>,
     <<Obj("tuple", 0, <<2>>), Obj("list", 0, <<3>>), Obj("int", 1, <<>>),
       Obj("int", 2, <<>>)>>,
     <<Obj("tuple", 0, <<2, 3>>), Obj("module", 0, <<4>>),
       Obj("list", 0, <<4>>), Obj("int", 1, <<>>), Obj("int", 2, <<>>)>>,
     <<Obj("list", 0, <<2>>), Obj("opaque", 0, <<3>>), Obj("list", 0, <<4>>),
       Obj("int", 1, <<>>), Obj("int", 2, <<>>)>>}

\* copy.deepcopy(obj) returns
RECURSIVE CanDeepCopy(_, _)
CanDeepCopy(h, obj) ==
    /\ h[obj].kind \notin {"opaque", "module"}
    /\ \A i \in 1..Len(h[obj].items) : CanDeepCopy(h, h[obj].items[i])

\* the value of an object, its items' values in place of their ids (a
\* generator's: what it yields when it is consumed now)
RECURSIVE DeepValue(_, _)
DeepValue(h, obj) ==
    [kind |-> h[obj].kind, val |-> h[obj].val,
     items |-> [i \in 1..Len(h[obj].items) |->
                    DeepValue(h, h[obj].items[i])]]

\* the objects reached from obj
RECURSIVE Reachable(_, _)
Reachable(h, obj) ==
    {obj} \cup UNION {Reachable(h, h[obj].items[i]) :
                        i \in 1..Len(h[obj].items)}

\* deepish_copy(obj, memo): [heap, id], the heap with the copies in it and
\* the id of the result
RECURSIVE deepish_copy_in(_, _), CopyItems(_, _, _)
CopyItems(h, items, done) ==
    IF Len(done) = Len(items) THEN [heap |-> h, ids |-> done]
    ELSE CHOOSE r \in
        {CopyItems(c.heap, items, Append(done, c.id)) :
            c \in {deepish_copy_in(h, items[Len(done) + 1])}} : TRUE

deepish_copy_in(h, obj) ==
    CASE h[obj].kind = "int" -> [heap |-> h, id |-> obj]
      [] h[obj].kind = "list"
         \/ (h[obj].kind = "tuple" /\ CanDeepCopy(h, obj)) ->
            CHOOSE r \in
                {[heap |-> Append(c.heap, Obj(h[obj].kind, 0, c.ids)),
                  id |-> Len(c.heap) + 1] :
                    c \in {CopyItems(h, h[obj].items, <<>>)}} : TRUE
      [] h[obj].kind = "tuple" ->
            \* result = (deepish_copy(item, memo) for item in obj)
            [heap |-> Append(h, Obj("generator", 0, h[obj].items)),
             id |-> Len(h) + 1]
      [] h[obj].kind = "opaque" ->
            \* copy.copy(obj)
            [heap |-> Append(h, Obj("opaque", 0, h[obj].items)),
             id |-> Len(h) + 1]
      [] OTHER -> [heap |-> h, id |-> obj]

\* the caller holds one of its objects
ObjectHeld ==
    /\ heap \in CallerObjects
    /\ snap = [root |-> 1, copy |-> 0, frozen |-> <<>>, mutations |-> 0]

\* get_my_context stores deepish_copy of the value of a reference
StoreValue ==
    /\ snap.root # 0
    /\ snap.copy = 0
    /\ \E c \in {deepish_copy_in(heap, snap.root)} :
        /\ heap' = c.heap
        /\ snap' = [snap EXCEPT !.copy = c.id,
                                !.frozen = DeepValue(c.heap, c.id)]
    /\ UNCHANGED <<optVars, wgVars, hintCall, scan, srcCall, walk, caseVars,
                 created>>

\* the caller's program appends to a list it can reach, or rebinds the
\* attribute of a module or of an instance
MutateObject ==
    \E obj \in Reachable(heap, snap.root) :
    \E n \in {i \in 1..Len(heap) : heap[i].kind = "int"} :
        /\ snap.root # 0
        /\ snap.mutations < MaxMutations
        /\ heap[obj].kind \in {"list", "module", "opaque"}
        /\ heap' = [heap EXCEPT ![obj].items =
                        IF heap[obj].kind = "list" THEN Append(@, n)
                        ELSE <<n>>]
        /\ heap' # heap
        /\ snap' = [snap EXCEPT !.mutations = @ + 1]
        /\ UNCHANGED <<optVars, wgVars, hintCall, scan, srcCall, walk, caseVars,
                 created>>

NextCopy ==
    \/ StoreValue
    \/ MutateObject

InitCopy ==
    /\ OptimismImported({"m.py"})
    /\ NoGame
    /\ hintCall = NoHintCall
    /\ ObjectHeld
    /\ scan = NoScan
    /\ srcCall = NoSrcCall
    /\ walk = NoWalk
    /\ NoCases

SpecCopy == InitCopy /\ [][NextCopy]_vars

(***************************************************************************)
(* The source scanners.  A text is a sequence of characters; positions     *)
(* count from 1 here (the code's index plus one).                          *)
(***************************************************************************)
MaxText == 5

\* the characters of the texts scanned: a letter, the quotes, the backslash
ScanAlphabet == {"a", "'", "\"", "\\"}
Texts == UNION {[1..k -> ScanAlphabet] : k \in 0..MaxText}

QuoteChars == {"'", "\""}

\* a scanner that knows no triple quotes
NeverTriple(src, at) == FALSE

\* src[at:at + 3] is one of the two triple quotes
IsTripleQuote(src, at) ==
    /\ at + 2 <= Len(src)
    /\ src[at] \in QuoteChars
    /\ src[at + 1] = src[at]
    /\ src[at + 2] = src[at]

\* the while loop of unquoted_enumerate; quote is "" for None, and out
\* collects the pairs yielded
RECURSIVE ScanFrom(_, _, _, _)
ScanFrom(src, at, quote, out) ==
    IF at > Len(src) THEN out
    ELSE IF quote # "" /\ src[at] = "\\" THEN ScanFrom(src, at + 2, quote, out)
    ELSE IF src[at] \in QuoteChars
    THEN IF quote = src[at] THEN ScanFrom(src, at + 1, "", out)
         ELSE IF IsTripleQuote(src, at)
         THEN IF quote = src[at] \o src[at] \o src[at] \/ quote = src[at]
              THEN ScanFrom(src, at + 3, "", out)
              ELSE IF quote # "" THEN ScanFrom(src, at + 3, quote, out)
              ELSE ScanFrom(src, at + 3, src[at] \o src[at] \o src[at], out)
         ELSE IF quote = "" THEN ScanFrom(src, at + 1, src[at], out)
         ELSE ScanFrom(src, at + 1, quote, out)
    ELSE IF quote # "" THEN ScanFrom(src, at + 1, quote, out)
    ELSE ScanFrom(src, at + 1, quote, Append(out, <<at, src[at]>>))

\* a scanner to which a backslash is a character like any other
EnumerateUnescaped(src, start_index) ==
    ScanFrom([i \in 1..Len(src) |-> IF src[i] = "\\" THEN "a" ELSE src[i]],
             start_index, "", <<>>)

unquoted_enumerate(src, start_index) == ScanFrom(src, start_index, "", <<>>)

\* unquoted_enumerate is called on a text
ScanCalls ==
    \E src \in Texts : \E start_index \in 1..Len(src) + 1 :
        scan = [src |-> src, start_index |-> start_index, result |-> <<>>,
                called |-> FALSE]

\* the generator is consumed to its end
EnumerateUnquoted ==
    /\ ~scan.called
    /\ scan.start_index # 0
    /\ scan' = [scan EXCEPT
                    !.result = unquoted_enumerate(scan.src, scan.start_index),
                    !.called = TRUE]
    /\ UNCHANGED <<optVars, wgVars, hintCall, copyVars, srcCall, walk,
                 caseVars, created>>

NextScan == EnumerateUnquoted

InitScan ==
    /\ OptimismImported({"m.py"})
    /\ NoGame
    /\ hintCall = NoHintCall
    /\ NoCopy
    /\ ScanCalls
    /\ srcCall = NoSrcCall
    /\ walk = NoWalk
    /\ NoCases

SpecScan == InitScan /\ [][NextScan]_vars

(***************************************************************************)
(* get_expr_src on source text: the exact span of the argument node, and   *)
(* the scanner used where ast.get_source_segment is missing.  Positions in *)
(* a text count from 1 here, so index i of the code is position i + 1.     *)
(***************************************************************************)

\* one call in a source text: where ast.parse puts the call node and its
\* first argument (lineno from 1, col_offset from 0, as in the ast
\* module; span is the argument's lineno, col_offset, end_lineno and
\* end_col_offset), and the argument as it is written between the
\* parentheses
Sample(src, lineno, col_offset, span, written) ==
    [src |-> src, lineno |-> lineno, col_offset |-> col_offset,
     arg |-> [lineno |-> span[1], col_offset |-> span[2],
              end_lineno |-> span[3], end_col_offset |-> span[4]],
     written |-> written]

\* calls of f and of g(a), alone on their line and after a statement, with
\* the argument unpadded, padded and on lines of its own
CallSamples ==
    <<
     Sample(<<"f", "(", "x", ")">>,
            1, 0, <<1, 2, 1, 3>>,
            <<"x">>),
     Sample(<<"f", "(", "(", "x", ")", ")">>,
            1, 0, <<1, 3, 1, 4>>,
            <<"(", "x", ")">>),
     Sample(<<"f", "(", "x", " ", "+", " ", "1", ")">>,
            1, 0, <<1, 2, 1, 7>>,
            <<"x", " ", "+", " ", "1">>),
     Sample(<<"f", "(", "g", "(", "a", ",", " ", "b", ")", ")">>,
            1, 0, <<1, 2, 1, 9>>,
            <<"g", "(", "a", ",", " ", "b", ")">>),
     Sample(<<"f", "(", "'", "a", ",", "b", "'", ")">>,
            1, 0, <<1, 2, 1, 7>>,
            <<"'", "a", ",", "b", "'">>),
     Sample(<<"f", "(", "x", " ", "f", "o", "r", " ", "x", " ", "i", "n",
            " ", "y", ")">>,
            1, 0, <<1, 1, 1, 15>>,
            <<"x", " ", "f", "o", "r", " ", "x", " ", "i", "n", " ", "y">>),
     Sample(<<"f", "(", "a", " ", "+", "\n", " ", " ", " ", " ", "b",
            ")">>,
            1, 0, <<1, 2, 2, 5>>,
            <<"a", " ", "+", "\n", " ", " ", " ", " ", "b">>),
     Sample(<<"f", "(", "'", ")", "'", ")">>,
            1, 0, <<1, 2, 1, 5>>,
            <<"'", ")", "'">>),
     Sample(<<"f", "(", " ", "x", " ", ")">>,
            1, 0, <<1, 3, 1, 4>>,
            <<"x">>),
     Sample(<<"f", "(", " ", "(", "x", ")", " ", ")">>,
            1, 0, <<1, 4, 1, 5>>,
            <<"(", "x", ")">>),
     Sample(<<"f", "(", " ", "x", " ", "+", " ", "1", " ", ")">>,
            1, 0, <<1, 3, 1, 8>>,
            <<"x", " ", "+", " ", "1">>),
     Sample(<<"f", "(", " ", "g", "(", "a", ",", " ", "b", ")", " ", ")">>,
            1, 0, <<1, 3, 1, 10>>,
            <<"g", "(", "a", ",", " ", "b", ")">>),
     Sample(<<"f", "(", " ", "'", "a", ",", "b", "'", " ", ")">>,
            1, 0, <<1, 3, 1, 8>>,
            <<"'", "a", ",", "b", "'">>),
     Sample(<<"f", "(", " ", "x", " ", "f", "o", "r", " ", "x", " ", "i",
            "n", " ", "y", " ", ")">>,
            1, 0, <<1, 1, 1, 17>>,
            <<"x", " ", "f", "o", "r", " ", "x", " ", "i", "n", " ", "y">>),
     Sample(<<"f", "(", " ", "a", " ", "+", "\n", " ", " ", " ", " ", "b",
            " ", ")">>,
            1, 0, <<1, 3, 2, 5>>,
            <<"a", " ", "+", "\n", " ", " ", " ", " ", "b">>),
     Sample(<<"f", "(", " ", "'", ")", "'", " ", ")">>,
            1, 0, <<1, 3, 1, 6>>,
            <<"'", ")", "'">>),
     Sample(<<"f", "(", "\n", " ", " ", " ", " ", "x", "\n", ")">>,
            1, 0, <<2, 4, 2, 5>>,
            <<"x">>),
     Sample(<<"f", "(", "\n", " ", " ", " ", " ", "(", "x", ")", "\n",
            ")">>,
            1, 0, <<2, 5, 2, 6>>,
            <<"(", "x", ")">>),
     Sample(<<"f", "(", "\n", " ", " ", " ", " ", "x", " ", "+", " ", "1",
            "\n", ")">>,
            1, 0, <<2, 4, 2, 9>>,
            <<"x", " ", "+", " ", "1">>),
     Sample(<<"f", "(", "\n", " ", " ", " ", " ", "g", "(", "a", ",", " ",
            "b", ")", "\n", ")">>,
            1, 0, <<2, 4, 2, 11>>,
            <<"g", "(", "a", ",", " ", "b", ")">>),
     Sample(<<"f", "(", "\n", " ", " ", " ", " ", "'", "a", ",", "b", "'",
            "\n", ")">>,
            1, 0, <<2, 4, 2, 9>>,
            <<"'", "a", ",", "b", "'">>),
     Sample(<<"f", "(", "\n", " ", " ", " ", " ", "x", " ", "f", "o", "r",
            " ", "x", " ", "i", "n", " ", "y", "\n", ")">>,
            1, 0, <<1, 1, 3, 1>>,
            <<"x", " ", "f", "o", "r", " ", "x", " ", "i", "n", " ", "y">>),
     Sample(<<"f", "(", "\n", " ", " ", " ", " ", "a", " ", "+", "\n", " ",
            " ", " ", " ", "b", "\n", ")">>,
            1, 0, <<2, 4, 3, 5>>,
            <<"a", " ", "+", "\n", " ", " ", " ", " ", "b">>),
     Sample(<<"f", "(", "\n", " ", " ", " ", " ", "'", ")", "'", "\n",
            ")">>,
            1, 0, <<2, 4, 2, 7>>,
            <<"'", ")", "'">>),
     Sample(<<"g", "(", "a", ")", "(", "x", ")">>,
            1, 0, <<1, 5, 1, 6>>,
            <<"x">>),
     Sample(<<"g", "(", "a", ")", "(", "(", "x", ")", ")">>,
            1, 0, <<1, 6, 1, 7>>,
            <<"(", "x", ")">>),
     Sample(<<"g", "(", "a", ")", "(", "x", " ", "+", " ", "1", ")">>,
            1, 0, <<1, 5, 1, 10>>,
            <<"x", " ", "+", " ", "1">>),
     Sample(<<"g", "(", "a", ")", "(", "g", "(", "a", ",", " ", "b", ")",
            ")">>,
            1, 0, <<1, 5, 1, 12>>,
            <<"g", "(", "a", ",", " ", "b", ")">>),
     Sample(<<"g", "(", "a", ")", "(", "'", "a", ",", "b", "'", ")">>,
            1, 0, <<1, 5, 1, 10>>,
            <<"'", "a", ",", "b", "'">>),
     Sample(<<"g", "(", "a", ")", "(", "x", " ", "f", "o", "r", " ", "x",
            " ", "i", "n", " ", "y", ")">>,
            1, 0, <<1, 4, 1, 18>>,
            <<"x", " ", "f", "o", "r", " ", "x", " ", "i", "n", " ", "y">>),
     Sample(<<"g", "(", "a", ")", "(", "a", " ", "+", "\n", " ", " ", " ",
            " ", "b", ")">>,
            1, 0, <<1, 5, 2, 5>>,
            <<"a", " ", "+", "\n", " ", " ", " ", " ", "b">>),
     Sample(<<"g", "(", "a", ")", "(", "'", ")", "'", ")">>,
            1, 0, <<1, 5, 1, 8>>,
            <<"'", ")", "'">>),
     Sample(<<"g", "(", "a", ")", "(", " ", "x", " ", ")">>,
            1, 0, <<1, 6, 1, 7>>,
            <<"x">>),
     Sample(<<"g", "(", "a", ")", "(", " ", "(", "x", ")", " ", ")">>,
            1, 0, <<1, 7, 1, 8>>,
            <<"(", "x", ")">>),
     Sample(<<"g", "(", "a", ")", "(", " ", "x", " ", "+", " ", "1", " ",
            ")">>,
            1, 0, <<1, 6, 1, 11>>,
            <<"x", " ", "+", " ", "1">>),
     Sample(<<"g", "(", "a", ")", "(", " ", "g", "(", "a", ",", " ", "b",
            ")", " ", ")">>,
            1, 0, <<1, 6, 1, 13>>,
            <<"g", "(", "a", ",", " ", "b", ")">>),
     Sample(<<"g", "(", "a", ")", "(", " ", "'", "a", ",", "b", "'", " ",
            ")">>,
            1, 0, <<1, 6, 1, 11>>,
            <<"'", "a", ",", "b", "'">>),
     Sample(<<"g", "(", "a", ")", "(", " ", "x", " ", "f", "o", "r", " ",
            "x", " ", "i", "n", " ", "y", " ", ")">>,
            1, 0, <<1, 4, 1, 20>>,
            <<"x", " ", "f", "o", "r", " ", "x", " ", "i", "n", " ", "y">>),
     Sample(<<"g", "(", "a", ")", "(", " ", "a", " ", "+", "\n", " ", " ",
            " ", " ", "b", " ", ")">>,
            1, 0, <<1, 6, 2, 5>>,
            <<"a", " ", "+", "\n", " ", " ", " ", " ", "b">>),
     Sample(<<"g", "(", "a", ")", "(", " ", "'", ")", "'", " ", ")">>,
            1, 0, <<1, 6, 1, 9>>,
            <<"'", ")", "'">>),
     Sample(<<"g", "(", "a", ")", "(", "\n", " ", " ", " ", " ", "x", "\n",
            ")">>,
            1, 0, <<2, 4, 2, 5>>,
            <<"x">>),
     Sample(<<"g", "(", "a", ")", "(", "\n", " ", " ", " ", " ", "(", "x",
            ")", "\n", ")">>,
            1, 0, <<2, 5, 2, 6>>,
            <<"(", "x", ")">>),
     Sample(<<"g", "(", "a", ")", "(", "\n", " ", " ", " ", " ", "x", " ",
            "+", " ", "1", "\n", ")">>,
            1, 0, <<2, 4, 2, 9>>,
            <<"x", " ", "+", " ", "1">>),
     Sample(<<"g", "(", "a", ")", "(", "\n", " ", " ", " ", " ", "g", "(",
            "a", ",", " ", "b", ")", "\n", ")">>,
            1, 0, <<2, 4, 2, 11>>,
            <<"g", "(", "a", ",", " ", "b", ")">>),
     Sample(<<"g", "(", "a", ")", "(", "\n", " ", " ", " ", " ", "'", "a",
            ",", "b", "'", "\n", ")">>,
            1, 0, <<2, 4, 2, 9>>,
            <<"'", "a", ",", "b", "'">>),
     Sample(<<"g", "(", "a", ")", "(", "\n", " ", " ", " ", " ", "x", " ",
            "f", "o", "r", " ", "x", " ", "i", "n", " ", "y", "\n", ")">>,
            1, 0, <<1, 4, 3, 1>>,
            <<"x", " ", "f", "o", "r", " ", "x", " ", "i", "n", " ", "y">>),
     Sample(<<"g", "(", "a", ")", "(", "\n", " ", " ", " ", " ", "a", " ",
            "+", "\n", " ", " ", " ", " ", "b", "\n", ")">>,
            1, 0, <<2, 4, 3, 5>>,
            <<"a", " ", "+", "\n", " ", " ", " ", " ", "b">>),
     Sample(<<"g", "(", "a", ")", "(", "\n", " ", " ", " ", " ", "'", ")",
            "'", "\n", ")">>,
            1, 0, <<2, 4, 2, 7>>,
            <<"'", ")", "'">>),
     Sample(<<"y", " ", "=", " ", "1", ";", " ", "f", "(", "x", ")">>,
            1, 7, <<1, 9, 1, 10>>,
            <<"x">>),
     Sample(<<"y", " ", "=", " ", "1", ";", " ", "f", "(", "(", "x", ")",
            ")">>,
            1, 7, <<1, 10, 1, 11>>,
            <<"(", "x", ")">>),
     Sample(<<"y", " ", "=", " ", "1", ";", " ", "f", "(", "x", " ", "+",
            " ", "1", ")">>,
            1, 7, <<1, 9, 1, 14>>,
            <<"x", " ", "+", " ", "1">>),
     Sample(<<"y", " ", "=", " ", "1", ";", " ", "f", "(", "g", "(", "a",
            ",", " ", "b", ")", ")">>,
            1, 7, <<1, 9, 1, 16>>,
            <<"g", "(", "a", ",", " ", "b", ")">>),
     Sample(<<"y", " ", "=", " ", "1", ";", " ", "f", "(", "'", "a", ",",
            "b", "'", ")">>,
            1, 7, <<1, 9, 1, 14>>,
            <<"'", "a", ",", "b", "'">>),
     Sample(<<"y", " ", "=", " ", "1", ";", " ", "f", "(", "x", " ", "f",
            "o", "r", " ", "x", " ", "i", "n", " ", "y", ")">>,
            1, 7, <<1, 8, 1, 22>>,
            <<"x", " ", "f", "o", "r", " ", "x", " ", "i", "n", " ", "y">>),
     Sample(<<"y", " ", "=", " ", "1", ";", " ", "f", "(", "a", " ", "+",
            "\n", " ", " ", " ", " ", "b", ")">>,
            1, 7, <<1, 9, 2, 5>>,
            <<"a", " ", "+", "\n", " ", " ", " ", " ", "b">>),
     Sample(<<"y", " ", "=", " ", "1", ";", " ", "f", "(", "'", ")", "'",
            ")">>,
            1, 7, <<1, 9, 1, 12>>,
            <<"'", ")", "'">>),
     Sample(<<"y", " ", "=", " ", "1", ";", " ", "f", "(", " ", "x", " ",
            ")">>,
            1, 7, <<1, 10, 1, 11>>,
            <<"x">>),
     Sample(<<"y", " ", "=", " ", "1", ";", " ", "f", "(", " ", "(", "x",
            ")", " ", ")">>,
            1, 7, <<1, 11, 1, 12>>,
            <<"(", "x", ")">>),
     Sample(<<"y", " ", "=", " ", "1", ";", " ", "f", "(", " ", "x", " ",
            "+", " ", "1", " ", ")">>,
            1, 7, <<1, 10, 1, 15>>,
            <<"x", " ", "+", " ", "1">>),
     Sample(<<"y", " ", "=", " ", "1", ";", " ", "f", "(", " ", "g", "(",
            "a", ",", " ", "b", ")", " ", ")">>,
            1, 7, <<1, 10, 1, 17>>,
            <<"g", "(", "a", ",", " ", "b", ")">>),
     Sample(<<"y", " ", "=", " ", "1", ";", " ", "f", "(", " ", "'", "a",
            ",", "b", "'", " ", ")">>,
            1, 7, <<1, 10, 1, 15>>,
            <<"'", "a", ",", "b", "'">>),
     Sample(<<"y", " ", "=", " ", "1", ";", " ", "f", "(", " ", "x", " ",
            "f", "o", "r", " ", "x", " ", "i", "n", " ", "y", " ", ")">>,
            1, 7, <<1, 8, 1, 24>>,
            <<"x", " ", "f", "o", "r", " ", "x", " ", "i", "n", " ", "y">>),
     Sample(<<"y", " ", "=", " ", "1", ";", " ", "f", "(", " ", "a", " ",
            "+", "\n", " ", " ", " ", " ", "b", " ", ")">>,
            1, 7, <<1, 10, 2, 5>>,
            <<"a", " ", "+", "\n", " ", " ", " ", " ", "b">>),
     Sample(<<"y", " ", "=", " ", "1", ";", " ", "f", "(", " ", "'", ")",
            "'", " ", ")">>,
            1, 7, <<1, 10, 1, 13>>,
            <<"'", ")", "'">>),
     Sample(<<"y", " ", "=", " ", "1", ";", " ", "f", "(", "\n", " ", " ",
            " ", " ", "x", "\n", ")">>,
            1, 7, <<2, 4, 2, 5>>,
            <<"x">>),
     Sample(<<"y", " ", "=", " ", "1", ";", " ", "f", "(", "\n", " ", " ",
            " ", " ", "(", "x", ")", "\n", ")">>,
            1, 7, <<2, 5, 2, 6>>,
            <<"(", "x", ")">>),
     Sample(<<"y", " ", "=", " ", "1", ";", " ", "f", "(", "\n", " ", " ",
            " ", " ", "x", " ", "+", " ", "1", "\n", ")">>,
            1, 7, <<2, 4, 2, 9>>,
            <<"x", " ", "+", " ", "1">>),
     Sample(<<"y", " ", "=", " ", "1", ";", " ", "f", "(", "\n", " ", " ",
            " ", " ", "g", "(", "a", ",", " ", "b", ")", "\n", ")">>,
            1, 7, <<2, 4, 2, 11>>,
            <<"g", "(", "a", ",", " ", "b", ")">>),
     Sample(<<"y", " ", "=", " ", "1", ";", " ", "f", "(", "\n", " ", " ",
            " ", " ", "'", "a", ",", "b", "'", "\n", ")">>,
            1, 7, <<2, 4, 2, 9>>,
            <<"'", "a", ",", "b", "'">>),
     Sample(<<"y", " ", "=", " ", "1", ";", " ", "f", "(", "\n", " ", " ",
            " ", " ", "x", " ", "f", "o", "r", " ", "x", " ", "i", "n",
            " ", "y", "\n", ")">>,
            1, 7, <<1, 8, 3, 1>>,
            <<"x", " ", "f", "o", "r", " ", "x", " ", "i", "n", " ", "y">>),
     Sample(<<"y", " ", "=", " ", "1", ";", " ", "f", "(", "\n", " ", " ",
            " ", " ", "a", " ", "+", "\n", " ", " ", " ", " ", "b", "\n",
            ")">>,
            1, 7, <<2, 4, 3, 5>>,
            <<"a", " ", "+", "\n", " ", " ", " ", " ", "b">>),
     Sample(<<"y", " ", "=", " ", "1", ";", " ", "f", "(", "\n", " ", " ",
            " ", " ", "'", ")", "'", "\n", ")">>,
            1, 7, <<2, 4, 2, 7>>,
            <<"'", ")", "'">>),
     Sample(<<"y", " ", "=", " ", "1", ";", " ", "g", "(", "a", ")", "(",
            "x", ")">>,
            1, 7, <<1, 12, 1, 13>>,
            <<"x">>),
     Sample(<<"y", " ", "=", " ", "1", ";", " ", "g", "(", "a", ")", "(",
            "(", "x", ")", ")">>,
            1, 7, <<1, 13, 1, 14>>,
            <<"(", "x", ")">>),
     Sample(<<"y", " ", "=", " ", "1", ";", " ", "g", "(", "a", ")", "(",
            "x", " ", "+", " ", "1", ")">>,
            1, 7, <<1, 12, 1, 17>>,
            <<"x", " ", "+", " ", "1">>),
     Sample(<<"y", " ", "=", " ", "1", ";", " ", "g", "(", "a", ")", "(",
            "g", "(", "a", ",", " ", "b", ")", ")">>,
            1, 7, <<1, 12, 1, 19>>,
            <<"g", "(", "a", ",", " ", "b", ")">>),
     Sample(<<"y", " ", "=", " ", "1", ";", " ", "g", "(", "a", ")", "(",
            "'", "a", ",", "b", "'", ")">>,
            1, 7, <<1, 12, 1, 17>>,
            <<"'", "a", ",", "b", "'">>),
     Sample(<<"y", " ", "=", " ", "1", ";", " ", "g", "(", "a", ")", "(",
            "x", " ", "f", "o", "r", " ", "x", " ", "i", "n", " ", "y",
            ")">>,
            1, 7, <<1, 11, 1, 25>>,
            <<"x", " ", "f", "o", "r", " ", "x", " ", "i", "n", " ", "y">>),
     Sample(<<"y", " ", "=", " ", "1", ";", " ", "g", "(", "a", ")", "(",
            "a", " ", "+", "\n", " ", " ", " ", " ", "b", ")">>,
            1, 7, <<1, 12, 2, 5>>,
            <<"a", " ", "+", "\n", " ", " ", " ", " ", "b">>),
     Sample(<<"y", " ", "=", " ", "1", ";", " ", "g", "(", "a", ")", "(",
            "'", ")", "'", ")">>,
            1, 7, <<1, 12, 1, 15>>,
            <<"'", ")", "'">>),
     Sample(<<"y", " ", "=", " ", "1", ";", " ", "g", "(", "a", ")", "(",
            " ", "x", " ", ")">>,
            1, 7, <<1, 13, 1, 14>>,
            <<"x">>),
     Sample(<<"y", " ", "=", " ", "1", ";", " ", "g", "(", "a", ")", "(",
            " ", "(", "x", ")", " ", ")">>,
            1, 7, <<1, 14, 1, 15>>,
            <<"(", "x", ")">>),
     Sample(<<"y", " ", "=", " ", "1", ";", " ", "g", "(", "a", ")", "(",
            " ", "x", " ", "+", " ", "1", " ", ")">>,
            1, 7, <<1, 13, 1, 18>>,
            <<"x", " ", "+", " ", "1">>),
     Sample(<<"y", " ", "=", " ", "1", ";", " ", "g", "(", "a", ")", "(",
            " ", "g", "(", "a", ",", " ", "b", ")", " ", ")">>,
            1, 7, <<1, 13, 1, 20>>,
            <<"g", "(", "a", ",", " ", "b", ")">>),
     Sample(<<"y", " ", "=", " ", "1", ";", " ", "g", "(", "a", ")", "(",
            " ", "'", "a", ",", "b", "'", " ", ")">>,
            1, 7, <<1, 13, 1, 18>>,
            <<"'", "a", ",", "b", "'">>),
     Sample(<<"y", " ", "=", " ", "1", ";", " ", "g", "(", "a", ")", "(",
            " ", "x", " ", "f", "o", "r", " ", "x", " ", "i", "n", " ",
            "y", " ", ")">>,
            1, 7, <<1, 11, 1, 27>>,
            <<"x", " ", "f", "o", "r", " ", "x", " ", "i", "n", " ", "y">>),
     Sample(<<"y", " ", "=", " ", "1", ";", " ", "g", "(", "a", ")", "(",
            " ", "a", " ", "+", "\n", " ", " ", " ", " ", "b", " ", ")">>,
            1, 7, <<1, 13, 2, 5>>,
            <<"a", " ", "+", "\n", " ", " ", " ", " ", "b">>),
     Sample(<<"y", " ", "=", " ", "1", ";", " ", "g", "(", "a", ")", "(",
            " ", "'", ")", "'", " ", ")">>,
            1, 7, <<1, 13, 1, 16>>,
            <<"'", ")", "'">>),
     Sample(<<"y", " ", "=", " ", "1", ";", " ", "g", "(", "a", ")", "(",
            "\n", " ", " ", " ", " ", "x", "\n", ")">>,
            1, 7, <<2, 4, 2, 5>>,
            <<"x">>),
     Sample(<<"y", " ", "=", " ", "1", ";", " ", "g", "(", "a", ")", "(",
            "\n", " ", " ", " ", " ", "(", "x", ")", "\n", ")">>,
            1, 7, <<2, 5, 2, 6>>,
            <<"(", "x", ")">>),
     Sample(<<"y", " ", "=", " ", "1", ";", " ", "g", "(", "a", ")", "(",
            "\n", " ", " ", " ", " ", "x", " ", "+", " ", "1", "\n", ")">>,
            1, 7, <<2, 4, 2, 9>>,
            <<"x", " ", "+", " ", "1">>),
     Sample(<<"y", " ", "=", " ", "1", ";", " ", "g", "(", "a", ")", "(",
            "\n", " ", " ", " ", " ", "g", "(", "a", ",", " ", "b", ")",
            "\n", ")">>,
            1, 7, <<2, 4, 2, 11>>,
            <<"g", "(", "a", ",", " ", "b", ")">>),
     Sample(<<"y", " ", "=", " ", "1", ";", " ", "g", "(", "a", ")", "(",
            "\n", " ", " ", " ", " ", "'", "a", ",", "b", "'", "\n", ")">>,
            1, 7, <<2, 4, 2, 9>>,
            <<"'", "a", ",", "b", "'">>),
     Sample(<<"y", " ", "=", " ", "1", ";", " ", "g", "(", "a", ")", "(",
            "\n", " ", " ", " ", " ", "x", " ", "f", "o", "r", " ", "x",
            " ", "i", "n", " ", "y", "\n", ")">>,
            1, 7, <<1, 11, 3, 1>>,
            <<"x", " ", "f", "o", "r", " ", "x", " ", "i", "n", " ", "y">>),
     Sample(<<"y", " ", "=", " ", "1", ";", " ", "g", "(", "a", ")", "(",
            "\n", " ", " ", " ", " ", "a", " ", "+", "\n", " ", " ", " ",
            " ", "b", "\n", ")">>,
            1, 7, <<2, 4, 3, 5>>,
            <<"a", " ", "+", "\n", " ", " ", " ", " ", "b">>),
     Sample(<<"y", " ", "=", " ", "1", ";", " ", "g", "(", "a", ")", "(",
            "\n", " ", " ", " ", " ", "'", ")", "'", "\n", ")">>,
            1, 7, <<2, 4, 2, 7>>,
            <<"'", ")", "'">>)
    >>

\* str.find of one character at or after a position; 0 when absent
IndexOf(text, char, start) ==
    IF \E at \in start..Len(text) : text[at] = char
    THEN CHOOSE at \in start..Len(text) :
            /\ text[at] = char
            /\ \A before \in start..at - 1 : text[before] # char
    ELSE 0

\* str.split("\n")
RECURSIVE SplitLines(_)
SplitLines(text) ==
    CHOOSE r \in {IF at = 0 THEN <<text>>
                  ELSE <<SubSeq(text, 1, at - 1)>>
                       \o SplitLines(SubSeq(text, at + 1, Len(text)))
                  : at \in {IndexOf(text, "\n", 1)}} : TRUE

RECURSIVE SumLen(_)
SumLen(lines) ==
    IF lines = <<>> THEN 0 ELSE Len(Head(lines)) + SumLen(Tail(lines))

get_src_index(src, lineno, col_offset) ==
    CHOOSE r \in {SumLen(above) + Len(above) + col_offset + 1
                  : above \in {SubSeq(SplitLines(src), 1, lineno - 1)}} : TRUE

\* the for loop of find_closing_item over the pairs of unquoted_enumerate;
\* openclose is the pair of delimiters, and 0 stands for None
RECURSIVE ClosingLoop(_, _, _, _)
ClosingLoop(pairs, k, level, openclose) ==
    IF k > Len(pairs) THEN 0
    ELSE IF pairs[k][2] = openclose[1]
    THEN ClosingLoop(pairs, k + 1, level + 1, openclose)
    ELSE IF pairs[k][2] = openclose[2]
    THEN IF level - 1 < 1 THEN pairs[k][1]
         ELSE ClosingLoop(pairs, k + 1, level - 1, openclose)
    ELSE ClosingLoop(pairs, k + 1, level, openclose)

\* the first closing delimiter, whatever was opened before it
FirstCloser(code, start_index, openclose) ==
    ClosingLoop(unquoted_enumerate(code, start_index + 1), 1, 1,
                <<"", openclose[2]>>)

find_closing_item(code, start_index, openclose) ==
    ClosingLoop(unquoted_enumerate(code, start_index + 1), 1, 1, openclose)

OpenDelims == {"(", "[", "{"}

Closer(char) == IF char = "(" THEN ")" ELSE IF char = "[" THEN "]" ELSE "}"

\* the for loop of find_unbracketed_comma; 0 for None
RECURSIVE CommaLoop(_, _, _)
CommaLoop(pairs, k, seeking) ==
    IF k > Len(pairs) THEN 0
    ELSE IF pairs[k][2] \in OpenDelims
    THEN CommaLoop(pairs, k + 1, Append(seeking, Closer(pairs[k][2])))
    ELSE IF Len(seeking) > 0 /\ pairs[k][2] = seeking[Len(seeking)]
    THEN CommaLoop(pairs, k + 1, SubSeq(seeking, 1, Len(seeking) - 1))
    ELSE IF pairs[k][2] \in {")", "]", "}"} THEN 0
    ELSE IF pairs[k][2] = "," /\ Len(seeking) = 0 THEN pairs[k][1]
    ELSE CommaLoop(pairs, k + 1, seeking)

\* every comma counts, inside brackets or not
FirstComma(code, start_index) ==
    LET Plain(pair) == pair[2] \notin OpenDelims \cup {")", "]", "}"}
    IN  CommaLoop(SelectSeq(unquoted_enumerate(code, start_index), Plain),
                  1, <<>>)

find_unbracketed_comma(code, start_index) ==
    CommaLoop(unquoted_enumerate(code, start_index), 1, <<>>)

Blank == {" ", "\n"}

\* str.strip
RECURSIVE strip(_)
strip(text) ==
    IF text = <<>> THEN text
    ELSE IF text[1] \in Blank THEN strip(Tail(text))
    ELSE IF text[Len(text)] \in Blank
    THEN strip(SubSeq(text, 1, Len(text) - 1))
    ELSE text

IsBlankLine(line) == \A at \in 1..Len(line) : line[at] = " "

Indent(line) ==
    CHOOSE n \in 0..Len(line) :
        /\ \A at \in 1..n : line[at] = " "
        /\ n < Len(line) => line[n + 1] # " "

\* the margin textwrap.dedent removes: the indentation common to the lines
\* that are not blank
Margin(lines) ==
    IF \A k \in 1..Len(lines) : IsBlankLine(lines[k]) THEN 0
    ELSE CHOOSE n \in {Indent(lines[k]) : k \in 1..Len(lines)} :
            \E k \in 1..Len(lines) :
                /\ ~IsBlankLine(lines[k])
                /\ Indent(lines[k]) = n
                /\ \A j \in 1..Len(lines) :
                       IsBlankLine(lines[j]) \/ Indent(lines[j]) >= n

RECURSIVE JoinLines(_)
JoinLines(lines) ==
    IF Len(lines) = 1 THEN lines[1]
    ELSE lines[1] \o <<"\n">> \o JoinLines(Tail(lines))

\* textwrap.dedent: blank lines become empty, the others lose the margin
dedent(text) ==
    CHOOSE r \in {JoinLines([k \in 1..Len(lines) |->
                      IF IsBlankLine(lines[k]) THEN <<>>
                      ELSE SubSeq(lines[k], Margin(lines) + 1,
                                  Len(lines[k]))])
                  : lines \in {SplitLines(text)}} : TRUE

\* ast.get_source_segment: the text from the node's start to its end
get_source_segment(src, node) ==
    SubSeq(src, get_src_index(src, node.lineno, node.col_offset),
           get_src_index(src, node.end_lineno, node.end_col_offset) - 1)

\* get_expr_src where ast.get_source_segment exists
ExactSpan(sample) == strip(dedent(get_source_segment(sample.src, sample.arg)))

\* the end of the argument as the scanner sees it: the closing parenthesis,
\* or the first unbracketed comma when that comes first
ScannedEnd(src, open_paren) ==
    CHOOSE r \in {IF first_comma # 0 /\ first_comma < end THEN first_comma
                  ELSE end
                  : end \in {find_closing_item(src, open_paren, <<"(", ")">>)},
                    first_comma \in {find_unbracketed_comma(src,
                                                            open_paren + 1)}}
        : TRUE

\* get_expr_src where it is missing
ScannerSpan(sample) ==
    CHOOSE r \in {strip(dedent(SubSeq(sample.src, open_paren + 1,
                                      ScannedEnd(sample.src, open_paren) - 1)))
                  : open_paren \in {IndexOf(sample.src, "(",
                        get_src_index(sample.src, sample.lineno,
                                      sample.col_offset))}} : TRUE

\* get_expr_src is called on one of the samples
SrcCalls ==
    \E k \in 1..Len(CallSamples) :
        srcCall = [sample |-> k, exact |-> <<>>, scanned |-> <<>>,
                   called |-> FALSE]

\* both paths of get_expr_src run on the sample
GetExprSrc ==
    /\ srcCall.sample # 0
    /\ ~srcCall.called
    /\ srcCall' = [srcCall EXCEPT
                       !.exact = ExactSpan(CallSamples[srcCall.sample]),
                       !.scanned = ScannerSpan(CallSamples[srcCall.sample]),
                       !.called = TRUE]
    /\ UNCHANGED <<optVars, wgVars, hintCall, copyVars, scan, walk, caseVars,
                 created>>

NextSrc == GetExprSrc

InitSrc ==
    /\ OptimismImported({"m.py"})
    /\ NoGame
    /\ hintCall = NoHintCall
    /\ NoCopy
    /\ scan = NoScan
    /\ SrcCalls
    /\ walk = NoWalk
    /\ NoCases

SpecSrc == InitSrc /\ [][NextSrc]_vars

(***************************************************************************)
(* walk_ast_in_order and find_call_nodes_on_line called on their own, on   *)
(* the tree of m.py.                                                       *)
(***************************************************************************)
\* the functions looked for: the diagnostic functions and f
TargetFunctions == DiagnosticFunctions \cup {"fn_f"}

\* a walk from a node, or a search of a line for the calls of a function
WalkCalls ==
    \/ \E node \in NodeIds :
        walk = [NoWalk EXCEPT !.op = "walk", !.node = node]
    \/ \E function \in TargetFunctions, a \in AValues, lineno \in Lines :
        walk = [NoWalk EXCEPT !.op = "find", !.node = SrcNode,
                              !.function = function, !.a = a,
                              !.lineno = lineno]

\* list(walk_ast_in_order(node))
WalkNode ==
    /\ walk.op = "walk"
    /\ ~walk.called
    /\ walk' = [walk EXCEPT !.order = walk_ast_in_order(walk.node),
                            !.called = TRUE]
    /\ UNCHANGED <<optVars, wgVars, hintCall, copyVars, scan, srcCall,
                 caseVars, created>>

\* find_call_nodes_on_line(node, frame, function, lineno)
FindCalls ==
    /\ walk.op = "find"
    /\ ~walk.called
    /\ walk' = [walk EXCEPT
                    !.found = find_call_nodes_on_line(walk.node,
                                  Frame(walk.a), walk.function, walk.lineno),
                    !.called = TRUE]
    /\ UNCHANGED <<optVars, wgVars, hintCall, copyVars, scan, srcCall,
                 caseVars, created>>

NextWalk == WalkNode \/ FindCalls

InitWalk ==
    /\ OptimismImported({"m.py"})
    /\ NoGame
    /\ hintCall = NoHintCall
    /\ NoCopy
    /\ scan = NoScan
    /\ srcCall = NoSrcCall
    /\ WalkCalls
    /\ NoCases

SpecWalk == InitWalk /\ [][NextWalk]_vars

(***************************************************************************)
(* Test cases.  A case runs its payload through TestCase._run: the payload *)
(* returns a value and prints, or raises an Exception whose traceback has  *)
(* some number of lines.  Values, printed outputs and fragments are        *)
(* compared as wholes.  SkipCase, which has no payload, is not modelled.   *)
(***************************************************************************)
\* at most this many cases are created
MaxCases == 2

\* at most this many calls are made on cases and suites
MaxOps == 5

\* a traceback of this many lines is shortened in the failure message
LongTraceback == 12

\* what the payload of a case does when it runs
Payloads ==
    {[error |-> FALSE, tblines |-> 0]}
    \cup {[error |-> TRUE, tblines |-> n] :
            n \in {LongTraceback - 1, LongTraceback}}

\* TestCase.__init__; inputs and results are <<>> for None, and hold one
\* element once they are set
NewCase(manager, payload) ==
    [manager |-> manager, payload |-> payload, inputs |-> <<>>,
     results |-> <<>>, outcomes |-> <<>>, any_failed |-> FALSE,
     runs |-> 0, manual |-> 0]

\* what a payload does to the streams while it runs: nothing, binding
\* objects of its own to all three names, running another case (with and
\* without inputs), or providing inputs to the case that runs it
Effects == {"none", "rebinds", "runs a case", "runs a case with inputs",
            "provides inputs"}

Effect(payload) ==
    IF "effect" \in DOMAIN payload THEN payload.effect ELSE "none"

\* the value a payload returns when it raises nothing
Value(payload) ==
    IF "value" \in DOMAIN payload THEN payload.value ELSE "1"

\* the payloads of the cases run for their effect on the streams
StreamPayloads ==
    [error : BOOLEAN, tblines : {LongTraceback - 1},
     value : {"1", "NoResult"}, effect : Effects]

\* the case a payload creates and runs
InnerCase(inputs) ==
    [payload |-> [error |-> TRUE, tblines |-> LongTraceback - 1,
                  value |-> "1", effect |-> "none"],
     inputs |-> inputs, results |-> <<>>]

\* the payload raises an Exception: its own, or the TestError of
\* provideInputs on a case that has results
Raises(case) ==
    \/ case.payload.error
    \/ Effect(case.payload) = "provides inputs" /\ case.results # <<>>

\* TestCase._run(payload) at a depth of nesting, from the streams as they
\* are: the streams afterwards, self.results (<<>> for None), the
\* exception that leaves _run ("" for none) and self.inputs afterwards
RECURSIVE TestCase_run(_, _, _)
TestCase_run(before, case, depth) ==
    LET \* builtins.input = echoing_input; outputCapture.install();
        \* sys.stdin = fakeInput if self.inputs is not None
        installed ==
            [stdout |-> Object("CapturingStream", depth),
             stdin |-> IF case.inputs # <<>> THEN Object("StringIO", depth)
                       ELSE before.stdin,
             input |-> Object("echoing_input", depth)]
        \* value = payload()
        ran ==
            CASE Effect(case.payload) = "rebinds" ->
                    [stdout |-> Object("payload", depth),
                     stdin |-> Object("payload", depth),
                     input |-> Object("payload", depth)]
              [] Effect(case.payload) = "runs a case" ->
                    TestCase_run(installed, InnerCase(<<>>),
                                 depth + 1).streams
              [] Effect(case.payload) = "runs a case with inputs" ->
                    TestCase_run(installed, InnerCase(<<<<"a">>>>),
                                 depth + 1).streams
              [] OTHER -> installed
        inputsNow ==
            IF Effect(case.payload) = "provides inputs" /\ case.results = <<>>
            THEN <<<<"a">>>>
            ELSE case.inputs
        \* finally: outputCapture.uninstall() restores sys.stdout unless
        \* original_stdout is None; builtins.input = original_input;
        \* sys.stdin = original_stdin if self.inputs is not None, where
        \* original_stdin is bound only if self.inputs was not None
        unbound == inputsNow # <<>> /\ case.inputs = <<>>
        restored ==
            [stdout |-> IF before.stdout # Object("None", 0)
                        THEN before.stdout ELSE ran.stdout,
             stdin |-> IF inputsNow # <<>> /\ ~unbound THEN before.stdin
                       ELSE ran.stdin,
             input |-> before.input]
    IN  IF unbound
        THEN [streams |-> restored, results |-> case.results,
              raised |-> "UnboundLocalError", inputs |-> inputsNow]
        ELSE [streams |-> restored,
              results |->
                <<[output |-> "out",
                   error |-> IF Raises(case) THEN "Exception" ELSE "None",
                   traceback |-> IF Raises(case) THEN case.payload.tblines
                                 ELSE 0,
                   result |-> IF Raises(case) THEN "NoResult"
                              ELSE Value(case.payload)]>>,
              raised |-> "", inputs |-> inputsNow]

\* TestCase._run: the results of one run of a payload that leaves the
\* streams and the case alone
RunResults(payload) ==
    IF payload.error
    THEN [output |-> "out", error |-> "Exception",
          traceback |-> payload.tblines, result |-> "NoResult"]
    ELSE [output |-> "out", error |-> "None", traceback |-> 0,
          result |-> Value(payload)]

\* run(): the case after its payload ran once more
RunCase(case) ==
    [case EXCEPT !.results = <<RunResults(case.payload)>>, !.runs = @ + 1]

\* a fetchResults that runs the payload each time
fetchAlways(case) == RunCase(case)

\* fetchResults: the case after the call; its results are then set
fetchResults(case) ==
    IF case.results = <<>> THEN RunCase(case) ELSE case

\* a _should_skip that looks at the manager in mode 'case' too
ShouldSkipEither(case) ==
    \/ SKIP_ON_FAILURE \in {"case", "manager"} /\ case.any_failed
    \/ SKIP_ON_FAILURE \in {"case", "manager"}
       /\ manager_failed[case.manager]

should_skip(case) ==
    \/ SKIP_ON_FAILURE = "case" /\ case.any_failed
    \/ SKIP_ON_FAILURE = "manager" /\ manager_failed[case.manager]

\* the message about an error of the payload: tblines[:4] + '...' fails
\* for a list and a string
ErrorMessage(kind, tblines) ==
    IF tblines < LongTraceback THEN "False"
    ELSE IF kind = "checkPrintedLines" THEN "False"
    ELSE "TypeError"

\* what a check that is not skipped finds: "True", "False", or the
\* exception it raises
Verdict(kind, results, arg) ==
    IF kind = "checkCustom"
    THEN IF arg = "True" THEN "True" ELSE "False"
    ELSE IF results.error # "None"
    THEN ErrorMessage(kind, results.traceback)
    ELSE IF kind = "checkReturnValue"
    THEN IF results.result = "NoResult" THEN "False"
         ELSE IF results.result = arg THEN "True" ELSE "False"
    ELSE IF results.output = arg THEN "True" ELSE "False"

\* the body shared by the four checks of case c
Check(kind, c, arg) ==
    \E fetched \in {fetchResults(cases[c])} :
    \E found \in {IF should_skip(fetched) THEN "None"
                  ELSE Verdict(kind, fetched.results[1], arg)} :
        /\ cases' = [cases EXCEPT ![c] =
                IF found \in {"True", "False"}
                THEN [fetched EXCEPT
                        !.outcomes = Append(@, found = "True"),
                        !.any_failed = @ \/ found = "False"]
                ELSE fetched]
        /\ manager_failed' =
                IF found = "False"
                THEN [manager_failed EXCEPT ![fetched.manager] = TRUE]
                ELSE manager_failed
        /\ check' = [op |-> kind, case |-> c,
                     returned |-> IF found = "TypeError" THEN "" ELSE found,
                     raised |-> IF found = "TypeError" THEN found ELSE "",
                     report |-> <<>>]
        /\ streams' =
                IF cases[c].results = <<>>
                THEN TestCase_run(streams, cases[c], 1).streams
                ELSE streams
        /\ nOps' = nOps + 1
        /\ UNCHANGED <<SKIP_ON_FAILURE, created>>
        /\ UNCHANGED <<optVars, wgVars, hintCall, copyVars, scan, srcCall,
                       walk>>

\* TestManager.case(): the new case registers in the current suite
case ==
    \E manager \in Managers, payload \in Payloads :
        /\ Len(cases) < MaxCases
        /\ nOps < MaxOps
        /\ cases' = Append(cases, NewCase(manager, payload))
        /\ ALL_CASES' =
            [n \in DOMAIN ALL_CASES \cup {CURRENT_SUITE_NAME} |->
                IF n = CURRENT_SUITE_NAME
                THEN Append(IF n \in DOMAIN ALL_CASES THEN ALL_CASES[n]
                            ELSE <<>>, Len(cases) + 1)
                ELSE ALL_CASES[n]]
        /\ created' = [created EXCEPT ![CURRENT_SUITE_NAME] =
                            Append(@, Len(cases) + 1)]
        /\ check' = [NoCheck EXCEPT !.op = "case", !.case = Len(cases) + 1]
        /\ nOps' = nOps + 1
        /\ UNCHANGED <<manager_failed, SKIP_ON_FAILURE, streams>>
        /\ UNCHANGED <<COMPLETED_PER_LINE, DETAIL_LEVEL, CURRENT_SUITE_NAME,
                       caller, call, resolved, skipped, managed, nCalls>>
        /\ UNCHANGED <<wgVars, hintCall, copyVars, scan, srcCall, walk>>

provideInputs ==
    \E c \in 1..Len(cases), inputLines \in {<<"a">>} :
        /\ nOps < MaxOps
        /\ IF cases[c].results # <<>>
           THEN /\ check' = [NoCheck EXCEPT !.op = "provideInputs",
                                            !.case = c,
                                            !.raised = "TestError"]
                /\ UNCHANGED cases
           ELSE /\ check' = [NoCheck EXCEPT !.op = "provideInputs",
                                            !.case = c, !.returned = "None"]
                /\ cases' = [cases EXCEPT ![c].inputs = <<inputLines>>]
        /\ nOps' = nOps + 1
        /\ UNCHANGED <<manager_failed, SKIP_ON_FAILURE, created, streams>>
        /\ UNCHANGED <<optVars, wgVars, hintCall, copyVars, scan, srcCall,
                       walk>>

\* run() called by the caller: _run sets the results, or an exception
\* leaves it
run ==
    \E c \in 1..Len(cases) : \E ran \in {TestCase_run(streams, cases[c], 1)} :
        /\ nOps < MaxOps
        /\ cases' = [cases EXCEPT ![c] =
                [@ EXCEPT !.results = ran.results, !.inputs = ran.inputs,
                          !.runs = @ + 1, !.manual = @ + 1]]
        /\ check' = [NoCheck EXCEPT !.op = "run", !.case = c,
                                    !.raised = ran.raised]
        /\ streams' = ran.streams
        /\ nOps' = nOps + 1
        /\ UNCHANGED <<manager_failed, SKIP_ON_FAILURE, created>>
        /\ UNCHANGED <<optVars, wgVars, hintCall, copyVars, scan, srcCall,
                       walk>>

checkReturnValue ==
    \E c \in 1..Len(cases), expectedValue \in {"1", "2"} :
        /\ nOps < MaxOps
        /\ Check("checkReturnValue", c, expectedValue)

checkPrintedLines ==
    \E c \in 1..Len(cases), expectedLines \in {"out", "other"} :
        /\ nOps < MaxOps
        /\ Check("checkPrintedLines", c, expectedLines)

checkPrintedFragment ==
    \E c \in 1..Len(cases), fragment \in {"out", "other"} :
        /\ nOps < MaxOps
        /\ Check("checkPrintedFragment", c, fragment)

\* the checker returns True, False or something else
checkCustom ==
    \E c \in 1..Len(cases), test_result \in {"True", "False", "other"} :
        /\ nOps < MaxOps
        /\ Check("checkCustom", c, test_result)

skipChecksAfterFail ==
    \E mode \in {"case", "manager", "None"} :
        /\ nOps < MaxOps
        /\ mode # SKIP_ON_FAILURE
        /\ SKIP_ON_FAILURE' = mode
        /\ check' = [NoCheck EXCEPT !.op = "skipChecksAfterFail"]
        /\ nOps' = nOps + 1
        /\ UNCHANGED <<cases, manager_failed, created, streams>>
        /\ UNCHANGED <<optVars, wgVars, hintCall, copyVars, scan, srcCall,
                       walk>>

\* the outcomes of the cases of a suite, in order
RECURSIVE OutcomesOf(_)
OutcomesOf(ids) ==
    IF ids = <<>> THEN <<>>
    ELSE cases[Head(ids)].outcomes \o OutcomesOf(Tail(ids))

\* the line showSummary prints between its rules
SummaryLine(met, unmet) ==
    IF unmet = 0
    THEN IF met = 0 THEN "No expectations were established."
         ELSE "All expectation(s) were met."
    ELSE IF met = 0 THEN "None of the expectation(s) were met!"
         ELSE "expectation(s) were NOT met:"

\* showSummary()
showSummary ==
    \E suiteName \in {currentTestSuite} :
        /\ nOps < MaxOps
        /\ check' =
            IF suiteName \notin DOMAIN ALL_CASES
            THEN [NoCheck EXCEPT !.op = "showSummary",
                                 !.raised = "ValueError"]
            ELSE [NoCheck EXCEPT
                    !.op = "showSummary",
                    !.returned = "None",
                    !.report =
                        <<SummaryLine(
                            Len(SelectSeq(OutcomesOf(ALL_CASES[suiteName]),
                                          LAMBDA passed : passed)),
                            Len(SelectSeq(OutcomesOf(ALL_CASES[suiteName]),
                                          LAMBDA passed : ~passed)))>>]
        /\ nOps' = nOps + 1
        /\ UNCHANGED <<cases, manager_failed, SKIP_ON_FAILURE, created,
                       streams>>
        /\ UNCHANGED <<optVars, wgVars, hintCall, copyVars, scan, srcCall,
                       walk>>

\* listCasesInSuite()
listCasesInSuite ==
    \E suiteName \in {currentTestSuite} :
        /\ nOps < MaxOps
        /\ check' =
            IF suiteName \notin DOMAIN ALL_CASES
            THEN [NoCheck EXCEPT !.op = "listCasesInSuite",
                                 !.raised = "ValueError"]
            ELSE [NoCheck EXCEPT !.op = "listCasesInSuite",
                                 !.returned = "list",
                                 !.report = ALL_CASES[suiteName]]
        /\ nOps' = nOps + 1
        /\ UNCHANGED <<cases, manager_failed, SKIP_ON_FAILURE, created,
                       streams>>
        /\ UNCHANGED <<optVars, wgVars, hintCall, copyVars, scan, srcCall,
                       walk>>

\* cases and their checks
NextCases ==
    \/ case
    \/ provideInputs
    \/ run
    \/ checkReturnValue
    \/ checkPrintedLines
    \/ checkPrintedFragment
    \/ checkCustom
    \/ skipChecksAfterFail

\* suites, cases and the two reports
NextSummary ==
    \/ startTestSuite
    \/ resetTestSuite
    \/ deleteAllTestSuites
    \/ case
    \/ checkCustom
    \/ showSummary
    \/ listCasesInSuite

InitCases ==
    /\ OptimismImported({"m.py"})
    /\ NoGame
    /\ hintCall = NoHintCall
    /\ LibIdle

SpecCases == InitCases /\ [][NextCases]_vars

SpecSummary == InitCases /\ [][NextSummary]_vars

(***************************************************************************)
(* The finders built on unquoted_enumerate, called on short texts.         *)
(***************************************************************************)
MaxCode == 5

\* how many periods a caller may skip
MaxN == 2

DelimAlphabet == {"(", ")", "[", "]", "\"", "a"}
CommaAlphabet == {"(", ")", "[", "]", ",", "\""}
PeriodAlphabet == {".", "a", "'", "\""}
DelimPairs == {<<"(", ")">>, <<"[", "]">>}

Codes(alphabet) == UNION {[1..k -> alphabet] : k \in 0..MaxCode}

\* code[at - 1:at] == '.' or code[at + 1:at + 2] == '.'
PartOfEllipsis(code, at) ==
    \/ at > 1 /\ code[at - 1] = "."
    \/ at < Len(code) /\ code[at + 1] = "."

\* the for loop of find_nth_attribute_period, for n >= 0; 0 for None
RECURSIVE PeriodLoop(_, _, _, _)
PeriodLoop(code, pairs, k, n) ==
    IF k > Len(pairs) THEN 0
    ELSE IF pairs[k][2] = "." /\ ~PartOfEllipsis(code, pairs[k][1])
    THEN IF n - 1 < 0 THEN pairs[k][1]
         ELSE PeriodLoop(code, pairs, k + 1, n - 1)
    ELSE PeriodLoop(code, pairs, k + 1, n)

\* every period outside the strings counts, next to another one or not
NthPeriod(code, start_index, n) ==
    PeriodLoop([i \in 1..Len(code) |-> "a"],
               unquoted_enumerate(code, start_index), 1, n)

find_nth_attribute_period(code, start_index, n) ==
    PeriodLoop(code, unquoted_enumerate(code, start_index), 1, n)

FinderCall(function, code, start_index, openclose, n) ==
    [function |-> function, src |-> code, start_index |-> start_index,
     openclose |-> openclose, n |-> n, result |-> 0, called |-> FALSE]

\* one of the finders is called on a text: find_closing_item where an
\* opening delimiter stands, the other two anywhere
FinderCalls ==
    \/ \E code \in Codes(DelimAlphabet) : \E openclose \in DelimPairs :
        \E start_index \in {i \in 1..Len(code) : code[i] = openclose[1]} :
            scan = FinderCall("find_closing_item", code, start_index,
                              openclose, 0)
    \/ \E code \in Codes(CommaAlphabet) : \E start_index \in 1..Len(code) + 1 :
            scan = FinderCall("find_unbracketed_comma", code, start_index,
                              <<>>, 0)
    \/ \E code \in Codes(PeriodAlphabet) :
        \E start_index \in 1..Len(code) + 1 : \E n \in 0..MaxN :
            scan = FinderCall("find_nth_attribute_period", code, start_index,
                              <<>>, n)

FindClosingItem ==
    /\ ~scan.called
    /\ scan.function = "find_closing_item"
    /\ scan' = [scan EXCEPT
                    !.result = find_closing_item(scan.src, scan.start_index,
                                                 scan.openclose),
                    !.called = TRUE]
    /\ UNCHANGED <<optVars, wgVars, hintCall, copyVars, srcCall, walk,
                 caseVars, created>>

FindUnbracketedComma ==
    /\ ~scan.called
    /\ scan.function = "find_unbracketed_comma"
    /\ scan' = [scan EXCEPT
                    !.result = find_unbracketed_comma(scan.src,
                                                      scan.start_index),
                    !.called = TRUE]
    /\ UNCHANGED <<optVars, wgVars, hintCall, copyVars, srcCall, walk,
                 caseVars, created>>

FindNthAttributePeriod ==
    /\ ~scan.called
    /\ scan.function = "find_nth_attribute_period"
    /\ scan' = [scan EXCEPT
                    !.result = find_nth_attribute_period(scan.src,
                                    scan.start_index, scan.n),
                    !.called = TRUE]
    /\ UNCHANGED <<optVars, wgVars, hintCall, copyVars, srcCall, walk,
                 caseVars, created>>

NextFind ==
    \/ FindClosingItem
    \/ FindUnbracketedComma
    \/ FindNthAttributePeriod

InitFind ==
    /\ OptimismImported({"m.py"})
    /\ NoGame
    /\ hintCall = NoHintCall
    /\ NoCopy
    /\ FinderCalls
    /\ srcCall = NoSrcCall
    /\ walk = NoWalk
    /\ NoCases

SpecFind == InitFind /\ [][NextFind]_vars

(***************************************************************************)
(* get_ref_src on source text, for attribute accesses: the exact span of   *)
(* the node, and the scanner used where ast.get_source_segment is missing. *)
(***************************************************************************)

\* one attribute access in a source text: the span ast.parse gives the
\* node (lineno, col_offset, end_lineno, end_col_offset) and the number of
\* Attribute nodes ast.walk(node) yields, the node itself included
RefSample(src, span, attributes) ==
    [src |-> src, lineno |-> span[1], col_offset |-> span[2],
     end_lineno |-> span[3], end_col_offset |-> span[4],
     attributes |-> attributes]

\* accesses .c, .c.d and .c_1 on names, attributes, calls, subscripts,
\* literals and parenthesised expressions, on the first line and after a
\* statement
RefSamples ==
    <<
     RefSample(<<"a", ".", "c">>,
               <<1, 0, 1, 3>>, 1),
     RefSample(<<"a", ".", "c", ".", "d">>,
               <<1, 0, 1, 3>>, 1),
     RefSample(<<"a", ".", "c", ".", "d">>,
               <<1, 0, 1, 5>>, 2),
     RefSample(<<"a", ".", "c", "_", "1">>,
               <<1, 0, 1, 5>>, 1),
     RefSample(<<"a", ".", "b", ".", "c">>,
               <<1, 0, 1, 5>>, 2),
     RefSample(<<"a", ".", "b", ".", "c", ".", "d">>,
               <<1, 0, 1, 5>>, 2),
     RefSample(<<"a", ".", "b", ".", "c", ".", "d">>,
               <<1, 0, 1, 7>>, 3),
     RefSample(<<"a", ".", "b", ".", "c", "_", "1">>,
               <<1, 0, 1, 7>>, 2),
     RefSample(<<"f", "(", "a", ".", "b", ")", ".", "c">>,
               <<1, 0, 1, 8>>, 2),
     RefSample(<<"f", "(", "a", ".", "b", ")", ".", "c", ".", "d">>,
               <<1, 0, 1, 8>>, 2),
     RefSample(<<"f", "(", "a", ".", "b", ")", ".", "c", ".", "d">>,
               <<1, 0, 1, 10>>, 3),
     RefSample(<<"f", "(", "a", ".", "b", ")", ".", "c", "_", "1">>,
               <<1, 0, 1, 10>>, 2),
     RefSample(<<"a", "[", "b", ".", "c", "]", ".", "c">>,
               <<1, 0, 1, 8>>, 2),
     RefSample(<<"a", "[", "b", ".", "c", "]", ".", "c", ".", "d">>,
               <<1, 0, 1, 8>>, 2),
     RefSample(<<"a", "[", "b", ".", "c", "]", ".", "c", ".", "d">>,
               <<1, 0, 1, 10>>, 3),
     RefSample(<<"a", "[", "b", ".", "c", "]", ".", "c", "_", "1">>,
               <<1, 0, 1, 10>>, 2),
     RefSample(<<"'", "x", ".", "y", "'", ".", "c">>,
               <<1, 0, 1, 7>>, 1),
     RefSample(<<"'", "x", ".", "y", "'", ".", "c", ".", "d">>,
               <<1, 0, 1, 7>>, 1),
     RefSample(<<"'", "x", ".", "y", "'", ".", "c", ".", "d">>,
               <<1, 0, 1, 9>>, 2),
     RefSample(<<"'", "x", ".", "y", "'", ".", "c", "_", "1">>,
               <<1, 0, 1, 9>>, 1),
     RefSample(<<"x", "[", "1", ".", "5", "]", ".", "c">>,
               <<1, 0, 1, 8>>, 1),
     RefSample(<<"x", "[", "1", ".", "5", "]", ".", "c", ".", "d">>,
               <<1, 0, 1, 8>>, 1),
     RefSample(<<"x", "[", "1", ".", "5", "]", ".", "c", ".", "d">>,
               <<1, 0, 1, 10>>, 2),
     RefSample(<<"x", "[", "1", ".", "5", "]", ".", "c", "_", "1">>,
               <<1, 0, 1, 10>>, 1),
     RefSample(<<"1", ".", "5", ".", "c">>,
               <<1, 0, 1, 5>>, 1),
     RefSample(<<"1", ".", "5", ".", "c", ".", "d">>,
               <<1, 0, 1, 5>>, 1),
     RefSample(<<"1", ".", "5", ".", "c", ".", "d">>,
               <<1, 0, 1, 7>>, 2),
     RefSample(<<"1", ".", "5", ".", "c", "_", "1">>,
               <<1, 0, 1, 7>>, 1),
     RefSample(<<"f", "(", ".", ".", ".", ")", ".", "c">>,
               <<1, 0, 1, 8>>, 1),
     RefSample(<<"f", "(", ".", ".", ".", ")", ".", "c", ".", "d">>,
               <<1, 0, 1, 8>>, 1),
     RefSample(<<"f", "(", ".", ".", ".", ")", ".", "c", ".", "d">>,
               <<1, 0, 1, 10>>, 2),
     RefSample(<<"f", "(", ".", ".", ".", ")", ".", "c", "_", "1">>,
               <<1, 0, 1, 10>>, 1),
     RefSample(<<"(", "a", ".", "b", ")", ".", "c">>,
               <<1, 0, 1, 7>>, 2),
     RefSample(<<"(", "a", ".", "b", ")", ".", "c", ".", "d">>,
               <<1, 0, 1, 7>>, 2),
     RefSample(<<"(", "a", ".", "b", ")", ".", "c", ".", "d">>,
               <<1, 0, 1, 9>>, 3),
     RefSample(<<"(", "a", ".", "b", ")", ".", "c", "_", "1">>,
               <<1, 0, 1, 9>>, 2),
     RefSample(<<"f", "(", "a", ")", "(", "b", ".", "c", ")", ".", "c">>,
               <<1, 0, 1, 11>>, 2),
     RefSample(<<"f", "(", "a", ")", "(", "b", ".", "c", ")", ".", "c",
               ".", "d">>,
               <<1, 0, 1, 11>>, 2),
     RefSample(<<"f", "(", "a", ")", "(", "b", ".", "c", ")", ".", "c",
               ".", "d">>,
               <<1, 0, 1, 13>>, 3),
     RefSample(<<"f", "(", "a", ")", "(", "b", ".", "c", ")", ".", "c",
               "_", "1">>,
               <<1, 0, 1, 13>>, 2),
     RefSample(<<"f", "\"", "{", "a", ".", "b", "}", "\"", ".", "c">>,
               <<1, 0, 1, 10>>, 2),
     RefSample(<<"f", "\"", "{", "a", ".", "b", "}", "\"", ".", "c", ".",
               "d">>,
               <<1, 0, 1, 10>>, 2),
     RefSample(<<"f", "\"", "{", "a", ".", "b", "}", "\"", ".", "c", ".",
               "d">>,
               <<1, 0, 1, 12>>, 3),
     RefSample(<<"f", "\"", "{", "a", ".", "b", "}", "\"", ".", "c", "_",
               "1">>,
               <<1, 0, 1, 12>>, 2),
     RefSample(<<"a", "[", "b", ".", "c", "_", "1", "]", ".", "c">>,
               <<1, 0, 1, 10>>, 2),
     RefSample(<<"a", "[", "b", ".", "c", "_", "1", "]", ".", "c", ".",
               "d">>,
               <<1, 0, 1, 10>>, 2),
     RefSample(<<"a", "[", "b", ".", "c", "_", "1", "]", ".", "c", ".",
               "d">>,
               <<1, 0, 1, 12>>, 3),
     RefSample(<<"a", "[", "b", ".", "c", "_", "1", "]", ".", "c", "_",
               "1">>,
               <<1, 0, 1, 12>>, 2),
     RefSample(<<"y", " ", "=", " ", "1", "\n", "a", ".", "c">>,
               <<2, 0, 2, 3>>, 1),
     RefSample(<<"y", " ", "=", " ", "1", "\n", "a", ".", "c", ".", "d">>,
               <<2, 0, 2, 3>>, 1),
     RefSample(<<"y", " ", "=", " ", "1", "\n", "a", ".", "c", ".", "d">>,
               <<2, 0, 2, 5>>, 2),
     RefSample(<<"y", " ", "=", " ", "1", "\n", "a", ".", "c", "_", "1">>,
               <<2, 0, 2, 5>>, 1),
     RefSample(<<"y", " ", "=", " ", "1", "\n", "a", ".", "b", ".", "c">>,
               <<2, 0, 2, 5>>, 2),
     RefSample(<<"y", " ", "=", " ", "1", "\n", "a", ".", "b", ".", "c",
               ".", "d">>,
               <<2, 0, 2, 5>>, 2),
     RefSample(<<"y", " ", "=", " ", "1", "\n", "a", ".", "b", ".", "c",
               ".", "d">>,
               <<2, 0, 2, 7>>, 3),
     RefSample(<<"y", " ", "=", " ", "1", "\n", "a", ".", "b", ".", "c",
               "_", "1">>,
               <<2, 0, 2, 7>>, 2),
     RefSample(<<"y", " ", "=", " ", "1", "\n", "f", "(", "a", ".", "b",
               ")", ".", "c">>,
               <<2, 0, 2, 8>>, 2),
     RefSample(<<"y", " ", "=", " ", "1", "\n", "f", "(", "a", ".", "b",
               ")", ".", "c", ".", "d">>,
               <<2, 0, 2, 8>>, 2),
     RefSample(<<"y", " ", "=", " ", "1", "\n", "f", "(", "a", ".", "b",
               ")", ".", "c", ".", "d">>,
               <<2, 0, 2, 10>>, 3),
     RefSample(<<"y", " ", "=", " ", "1", "\n", "f", "(", "a", ".", "b",
               ")", ".", "c", "_", "1">>,
               <<2, 0, 2, 10>>, 2),
     RefSample(<<"y", " ", "=", " ", "1", "\n", "a", "[", "b", ".", "c",
               "]", ".", "c">>,
               <<2, 0, 2, 8>>, 2),
     RefSample(<<"y", " ", "=", " ", "1", "\n", "a", "[", "b", ".", "c",
               "]", ".", "c", ".", "d">>,
               <<2, 0, 2, 8>>, 2),
     RefSample(<<"y", " ", "=", " ", "1", "\n", "a", "[", "b", ".", "c",
               "]", ".", "c", ".", "d">>,
               <<2, 0, 2, 10>>, 3),
     RefSample(<<"y", " ", "=", " ", "1", "\n", "a", "[", "b", ".", "c",
               "]", ".", "c", "_", "1">>,
               <<2, 0, 2, 10>>, 2),
     RefSample(<<"y", " ", "=", " ", "1", "\n", "'", "x", ".", "y", "'",
               ".", "c">>,
               <<2, 0, 2, 7>>, 1),
     RefSample(<<"y", " ", "=", " ", "1", "\n", "'", "x", ".", "y", "'",
               ".", "c", ".", "d">>,
               <<2, 0, 2, 7>>, 1),
     RefSample(<<"y", " ", "=", " ", "1", "\n", "'", "x", ".", "y", "'",
               ".", "c", ".", "d">>,
               <<2, 0, 2, 9>>, 2),
     RefSample(<<"y", " ", "=", " ", "1", "\n", "'", "x", ".", "y", "'",
               ".", "c", "_", "1">>,
               <<2, 0, 2, 9>>, 1),
     RefSample(<<"y", " ", "=", " ", "1", "\n", "x", "[", "1", ".", "5",
               "]", ".", "c">>,
               <<2, 0, 2, 8>>, 1),
     RefSample(<<"y", " ", "=", " ", "1", "\n", "x", "[", "1", ".", "5",
               "]", ".", "c", ".", "d">>,
               <<2, 0, 2, 8>>, 1),
     RefSample(<<"y", " ", "=", " ", "1", "\n", "x", "[", "1", ".", "5",
               "]", ".", "c", ".", "d">>,
               <<2, 0, 2, 10>>, 2),
     RefSample(<<"y", " ", "=", " ", "1", "\n", "x", "[", "1", ".", "5",
               "]", ".", "c", "_", "1">>,
               <<2, 0, 2, 10>>, 1),
     RefSample(<<"y", " ", "=", " ", "1", "\n", "1", ".", "5", ".", "c">>,
               <<2, 0, 2, 5>>, 1),
     RefSample(<<"y", " ", "=", " ", "1", "\n", "1", ".", "5", ".", "c",
               ".", "d">>,
               <<2, 0, 2, 5>>, 1),
     RefSample(<<"y", " ", "=", " ", "1", "\n", "1", ".", "5", ".", "c",
               ".", "d">>,
               <<2, 0, 2, 7>>, 2),
     RefSample(<<"y", " ", "=", " ", "1", "\n", "1", ".", "5", ".", "c",
               "_", "1">>,
               <<2, 0, 2, 7>>, 1),
     RefSample(<<"y", " ", "=", " ", "1", "\n", "f", "(", ".", ".", ".",
               ")", ".", "c">>,
               <<2, 0, 2, 8>>, 1),
     RefSample(<<"y", " ", "=", " ", "1", "\n", "f", "(", ".", ".", ".",
               ")", ".", "c", ".", "d">>,
               <<2, 0, 2, 8>>, 1),
     RefSample(<<"y", " ", "=", " ", "1", "\n", "f", "(", ".", ".", ".",
               ")", ".", "c", ".", "d">>,
               <<2, 0, 2, 10>>, 2),
     RefSample(<<"y", " ", "=", " ", "1", "\n", "f", "(", ".", ".", ".",
               ")", ".", "c", "_", "1">>,
               <<2, 0, 2, 10>>, 1),
     RefSample(<<"y", " ", "=", " ", "1", "\n", "(", "a", ".", "b", ")",
               ".", "c">>,
               <<2, 0, 2, 7>>, 2),
     RefSample(<<"y", " ", "=", " ", "1", "\n", "(", "a", ".", "b", ")",
               ".", "c", ".", "d">>,
               <<2, 0, 2, 7>>, 2),
     RefSample(<<"y", " ", "=", " ", "1", "\n", "(", "a", ".", "b", ")",
               ".", "c", ".", "d">>,
               <<2, 0, 2, 9>>, 3),
     RefSample(<<"y", " ", "=", " ", "1", "\n", "(", "a", ".", "b", ")",
               ".", "c", "_", "1">>,
               <<2, 0, 2, 9>>, 2),
     RefSample(<<"y", " ", "=", " ", "1", "\n", "f", "(", "a", ")", "(",
               "b", ".", "c", ")", ".", "c">>,
               <<2, 0, 2, 11>>, 2),
     RefSample(<<"y", " ", "=", " ", "1", "\n", "f", "(", "a", ")", "(",
               "b", ".", "c", ")", ".", "c", ".", "d">>,
               <<2, 0, 2, 11>>, 2),
     RefSample(<<"y", " ", "=", " ", "1", "\n", "f", "(", "a", ")", "(",
               "b", ".", "c", ")", ".", "c", ".", "d">>,
               <<2, 0, 2, 13>>, 3),
     RefSample(<<"y", " ", "=", " ", "1", "\n", "f", "(", "a", ")", "(",
               "b", ".", "c", ")", ".", "c", "_", "1">>,
               <<2, 0, 2, 13>>, 2),
     RefSample(<<"y", " ", "=", " ", "1", "\n", "f", "\"", "{", "a", ".",
               "b", "}", "\"", ".", "c">>,
               <<2, 0, 2, 10>>, 2),
     RefSample(<<"y", " ", "=", " ", "1", "\n", "f", "\"", "{", "a", ".",
               "b", "}", "\"", ".", "c", ".", "d">>,
               <<2, 0, 2, 10>>, 2),
     RefSample(<<"y", " ", "=", " ", "1", "\n", "f", "\"", "{", "a", ".",
               "b", "}", "\"", ".", "c", ".", "d">>,
               <<2, 0, 2, 12>>, 3),
     RefSample(<<"y", " ", "=", " ", "1", "\n", "f", "\"", "{", "a", ".",
               "b", "}", "\"", ".", "c", "_", "1">>,
               <<2, 0, 2, 12>>, 2),
     RefSample(<<"y", " ", "=", " ", "1", "\n", "a", "[", "b", ".", "c",
               "_", "1", "]", ".", "c">>,
               <<2, 0, 2, 10>>, 2),
     RefSample(<<"y", " ", "=", " ", "1", "\n", "a", "[", "b", ".", "c",
               "_", "1", "]", ".", "c", ".", "d">>,
               <<2, 0, 2, 10>>, 2),
     RefSample(<<"y", " ", "=", " ", "1", "\n", "a", "[", "b", ".", "c",
               "_", "1", "]", ".", "c", ".", "d">>,
               <<2, 0, 2, 12>>, 3),
     RefSample(<<"y", " ", "=", " ", "1", "\n", "a", "[", "b", ".", "c",
               "_", "1", "]", ".", "c", "_", "1">>,
               <<2, 0, 2, 12>>, 2)
    >>

\* ch.isalpha() or ch.isdigit() or ch == '_', for the characters of the
\* samples
IdentifierChars ==
    {"a", "b", "c", "d", "f", "x", "y", "_"} \cup {"1", "5"}

\* the while loop of find_identifier_end
RECURSIVE IdentifierLoop(_, _)
IdentifierLoop(code, at) ==
    IF at > Len(code) THEN at - 1
    ELSE IF code[at] \notin IdentifierChars THEN at - 1
    ELSE IdentifierLoop(code, at + 1)

find_identifier_end(code, start_index) == IdentifierLoop(code, start_index + 1)

\* get_ref_src where ast.get_source_segment exists
ExactRef(sample) == get_source_segment(sample.src, sample)

\* get_ref_src of an Attribute node where it is missing: [raised, text]
ScannerRef(sample) ==
    CHOOSE r \in
        {IF dot = 0 THEN [raised |-> "TypeError", text |-> <<>>]
         ELSE [raised |-> "",
               text |-> SubSeq(sample.src, start,
                               find_identifier_end(sample.src, dot + 1))]
         : <<start, dot>> \in
            {<<s, find_nth_attribute_period(sample.src, s,
                                            sample.attributes - 1)>>
             : s \in {get_src_index(sample.src, sample.lineno,
                                    sample.col_offset)}}} : TRUE

\* get_ref_src is called on one of the samples
RefCalls ==
    \E k \in 1..Len(RefSamples) :
        srcCall = [sample |-> k, exact |-> <<>>, scanned |-> <<>>,
                   raised |-> "", called |-> FALSE]

\* both paths of get_ref_src run on the sample
GetRefSrc ==
    /\ srcCall.sample # 0
    /\ ~srcCall.called
    /\ \E got \in {ScannerRef(RefSamples[srcCall.sample])} :
        srcCall' = [srcCall EXCEPT
                        !.exact = ExactRef(RefSamples[srcCall.sample]),
                        !.scanned = got.text,
                        !.raised = got.raised,
                        !.called = TRUE]
    /\ UNCHANGED <<optVars, wgVars, hintCall, copyVars, scan, walk, caseVars,
                 created>>

NextRef == GetRefSrc

InitRef ==
    /\ OptimismImported({"m.py"})
    /\ NoGame
    /\ hintCall = NoHintCall
    /\ NoCopy
    /\ scan = NoScan
    /\ RefCalls
    /\ walk = NoWalk
    /\ NoCases

SpecRef == InitRef /\ [][NextRef]_vars

(***************************************************************************)
(* Runs of a case seen from the streams: what sys.stdout, sys.stdin and    *)
(* builtins.input are bound to before and after.                           *)
(***************************************************************************)
\* what the three names can be bound to when a case runs: the console or
\* a file, and None for sys.stdout where no console is attached
StreamsBefore ==
    [stdout : {Object("console", 0), Object("file", 0), Object("None", 0)},
     stdin : {Object("console", 0), Object("file", 0)},
     input : {Object("input", 0)}]

\* one case was created, with or without inputs, and has not run
InitRun ==
    /\ OptimismImported({"m.py"})
    /\ NoGame
    /\ hintCall = NoHintCall
    /\ NoCopy
    /\ scan = NoScan
    /\ srcCall = NoSrcCall
    /\ walk = NoWalk
    /\ \E payload \in StreamPayloads, inputs \in {<<>>, <<<<"a">>>>} :
        cases = <<[NewCase("m1", payload) EXCEPT !.inputs = inputs]>>
    /\ streams \in StreamsBefore
    /\ manager_failed = [m \in Managers |-> FALSE]
    /\ SKIP_ON_FAILURE = "case"
    /\ check = NoCheck
    /\ nOps = 0
    /\ created = [n \in SuiteNames |-> <<>>]

NextRun == run

SpecRun == InitRun /\ [][NextRun]_vars

(***************************************************************************)
(* compare on two dictionaries whose keys and values are numbers.          *)
(***************************************************************************)
MaxKeys == 2

\* 10 and 11 stand for two numbers that differ by less than the tolerance
\* of cmath.isclose (1.0 and 1.0 + 1e-12), 20 for one that is far from both
Numbers == {10, 11, 20}

\* cmath.isclose(val, ref, rel_tol=..., abs_tol=...)
isclose(val, ref) == val - ref \in {-1, 0, 1}

Dicts ==
    UNION {[keys -> Numbers] :
            keys \in {s \in SUBSET Numbers : Cardinality(s) <= MaxKeys}}

\* compare on two numbers
CompareNumbers(val, ref) ==
    IF val = ref THEN "True"
    ELSE IF isclose(val, ref) THEN "True"
    ELSE "False"

\* the orders in which the elements of a set can be iterated
Orders(set) ==
    {order \in [1..Cardinality(set) -> set] :
        \A i, j \in 1..Cardinality(set) : order[i] = order[j] => i = j}

\* all(compare(val[k], ref[k], comparing) for k in both), the keys taken
\* in one order: ref[k] raises KeyError, and the first False ends it
RECURSIVE AllCompared(_, _, _, _)
AllCompared(val, ref, order, i) ==
    IF i > Len(order) THEN "True"
    ELSE IF order[i] \notin DOMAIN ref THEN "KeyError"
    ELSE IF CompareNumbers(val[order[i]], ref[order[i]]) = "False"
    THEN "False"
    ELSE AllCompared(val, ref, order, i + 1)

\* compare(val, ref) on two dicts: what it can return or raise, one
\* outcome for every order in which the set `both` can be iterated.
\* rkeys is set(val.keys()), so onlyVal and onlyRef are empty and the
\* loop over them does nothing
compare(val, ref) ==
    IF val = ref THEN {"True"}
    ELSE IF Cardinality(DOMAIN val) # Cardinality(DOMAIN ref) THEN {"False"}
    ELSE LET vkeys == DOMAIN val
             rkeys == DOMAIN val
             both == vkeys \cap rkeys
         IN  {AllCompared(val, ref, order, 1) : order \in Orders(both)}

\* compare is called on two dictionaries
CompareCalls ==
    \E val \in Dicts, ref \in Dicts :
        check = [op |-> "compare", val |-> val, ref |-> ref,
                 returned |-> "", raised |-> "", called |-> FALSE]

CompareDicts ==
    /\ check.op = "compare"
    /\ ~check.called
    /\ \E outcome \in compare(check.val, check.ref) :
        check' = [check EXCEPT
                    !.returned = IF outcome = "KeyError" THEN "" ELSE outcome,
                    !.raised = IF outcome = "KeyError" THEN outcome ELSE "",
                    !.called = TRUE]
    /\ UNCHANGED <<optVars, wgVars, hintCall, copyVars, scan, srcCall, walk,
                   cases, manager_failed, SKIP_ON_FAILURE, nOps, streams,
                   created>>

NextCompare == CompareDicts

InitCompare ==
    /\ OptimismImported({"m.py"})
    /\ NoGame
    /\ hintCall = NoHintCall
    /\ NoCopy
    /\ scan = NoScan
    /\ srcCall = NoSrcCall
    /\ walk = NoWalk
    /\ cases = <<>>
    /\ streams = Console
    /\ manager_failed = [m \in Managers |-> FALSE]
    /\ SKIP_ON_FAILURE = "case"
    /\ CompareCalls
    /\ nOps = 0
    /\ created = [n \in SuiteNames |-> <<>>]

SpecCompare == InitCompare /\ [][NextCompare]_vars

(***************************************************************************)
(* Properties of get_my_context.                                           *)
(***************************************************************************)
\* the site of the last diagnostic call
CallKey == Key(FunctionName(call.function), call.file, call.line)

\* C1: for a site whose candidates are c0 .. c(k-1), k >= 1, the n-th
\* build that resolved for the site (n from 0) selects c(n mod k), and
\* the site's counter has advanced to n + 1 (so with k = 1 every build
\* selects the same node while the counter still advances).
C1_RoundRobin ==
    call.match # 0 =>
        /\ call.match =
                call.candidates[(call.nth % Len(call.candidates)) + 1]
        /\ Count(COMPLETED_PER_LINE, CallKey) = call.nth + 1

\* the third build of a site with two different candidates is back at c0
C1_Witness ==
    /\ call.match # 0
    /\ Len(call.candidates) = 2
    /\ call.candidates[1] # call.candidates[2]
    /\ call.nth = 2
    /\ call.match = call.candidates[1]

C3_CounterIsResolved ==
    /\ DOMAIN COMPLETED_PER_LINE \subseteq AllKeys
    /\ \A k \in AllKeys : Count(COMPLETED_PER_LINE, k) = resolved[k]

\* a key counted twice, and the three suite functions called since
C3_Witness ==
    /\ managed = {"startTestSuite", "resetTestSuite", "deleteAllTestSuites"}
    /\ \E k \in AllKeys : resolved[k] = 2 /\ Count(COMPLETED_PER_LINE, k) = 2

\* the calls C4 is about: the source cannot be read, or it can and the
\* search of the line returns no candidate (next state of a step)
Unreadable == nCalls' = nCalls + 1 /\ ~Readable(call'.file)

ZeroCandidates ==
    /\ nCalls' = nCalls + 1
    /\ Readable(call'.file)
    /\ LET found == CandidatesOn[Frame(caller.a), call'.function, call'.line]
       IN  found.raised = "" /\ Len(found.nodes) = 0

C5_NeverRaises == call.gmc_raised = ""

\* C10: the relevant set of a context holds the references of the first
\* argument that have an occurrence outside the callee of a nested call.
C10_RelevantIsUsedAsValue ==
    "relevant" \in DOMAIN call.context =>
        call.context.relevant =
            {get_ref_src(n) :
                n \in {m \in Range(ast_walk(call.context.expr)) :
                        /\ IsReference(m)
                        /\ ~is_inside_call_func(m, call.context.expr)}}

(***************************************************************************)
(* Properties of wordGuesser.                                              *)
(***************************************************************************)
\* C6: for a hidden word and a guess of equal length, letterHints returns
\* a string of that length whose i-th character is '@' when guess[i] is
\* hidden[i], else '*' when guess[i] occurs in hidden, else '-'.
C6_LetterHints ==
    (hintCall.called /\ Len(hintCall.hidden) = Len(hintCall.guess)) =>
        /\ Len(hintCall.result) = Len(hintCall.guess)
        /\ \A i \in 1..Len(hintCall.guess) :
            hintCall.result[i] =
                IF hintCall.guess[i] = hintCall.hidden[i] THEN "@"
                ELSE IF hintCall.guess[i] \in Range(hintCall.hidden) THEN "*"
                ELSE "-"

\* a call whose result holds the three marks
C6_Witness ==
    /\ hintCall.called
    /\ Len(hintCall.hidden) = Len(hintCall.guess)
    /\ hintCall.result = <<"@", "*", "-">>

\* the lines read so far that are as long as the hidden word
CorrectLength == {i \in 1..Len(stdin) : Len(stdin[i]) = Len(game.hidden)}

\* C7: when playGame ends, the tries it reports are the lines of the
\* right length read up to and including the one equal to hidden, and
\* the closing line is 'Wow' exactly for 1, 'Great job' exactly for 2..6
\* and the plain one exactly for 7 or more.
C7_Tries ==
    game.pc = "done" =>
        LET n == Cardinality(CorrectLength)
            closing == stdout[Len(stdout)]
        IN  /\ stdin[Len(stdin)] = game.hidden
            /\ game.tries = n
            /\ closing.kind \in {"wow", "great", "plain"}
            /\ closing.kind = "wow" <=> n = 1
            /\ closing.kind = "great" <=> (2 <= n /\ n <= 6)
            /\ closing.kind = "plain" <=> n >= 7
            /\ closing.kind # "wow" => closing.n = n

\* a game won at the seventh try or later, a line of wrong length among
\* its inputs
C7_Witness ==
    /\ game.pc = "done"
    /\ game.tries >= 7
    /\ \E i \in 1..Len(stdin) : Len(stdin[i]) # Len(game.hidden)
    /\ stdout[Len(stdout)].kind = "plain"

\* what is printed for the lines read from the i-th on, after the prompt
\* that asked for the i-th, the closing line left out
RECURSIVE Transcript(_, _, _)
Transcript(word, read, i) ==
    IF i > Len(read) THEN <<>>
    ELSE IF Len(read[i]) # Len(word)
    THEN <<MustGuess(Len(word)), Prompt(Len(word))>>
            \o Transcript(word, read, i + 1)
    ELSE IF read[i] # word
    THEN <<Out("hint", letterHints(word, read[i]), 0), Prompt(Len(word))>>
            \o Transcript(word, read, i + 1)
    ELSE <<Congratulations(word)>>

\* C8: playGame prints the intro and the word's length first, then one
\* hint (letterHints of the guess, as long as hidden) and a new prompt for
\* each guess of the right length that is not hidden, and at the first
\* guess equal to hidden the congratulation once, no hint for it, and it
\* reads nothing more.
C8_Order ==
    LET opening == Intro \o <<WordLength(game.hidden),
                              Prompt(Len(game.hidden))>>
        handled == IF game.pc \in {"while", "counted"}
                   THEN SubSeq(stdin, 1, Len(stdin) - 1)
                   ELSE stdin
        printed == IF game.pc = "done"
                   THEN SubSeq(stdout, 1, Len(stdout) - 1)
                   ELSE stdout
    IN  /\ game.pc = "start" => stdout = <<>>
        /\ game.pc # "start" =>
                printed = opening \o Transcript(game.hidden, handled, 1)
        /\ \A i \in 1..Len(stdin) - 1 : stdin[i] # game.hidden
        /\ \A j \in 1..Len(stdout) :
                stdout[j].kind = "hint" =>
                    Len(stdout[j].text) = Len(game.hidden)

\* a game won after two hints and a line of wrong length
C8_Witness ==
    /\ game.pc = "done"
    /\ Cardinality({j \in 1..Len(stdout) : stdout[j].kind = "hint"}) = 2
    /\ \E j \in 1..Len(stdout) : stdout[j].kind = "must"
    /\ stdout[Len(stdout) - 1] = Congratulations(game.hidden)

\* C9: getGuess returns the first line read whose length is num; each
\* earlier line is followed by one 'You must guess' message and a new
\* prompt, and no message follows the line returned.
C9_FirstOfLength ==
    game.pc \in {"while", "counted"} =>
        LET read == SubSeq(stdin, callIn + 1, Len(stdin))
            printed == SubSeq(stdout, callOut + 1, Len(stdout))
        IN  /\ read # <<>>
            /\ game.guess = read[Len(read)]
            /\ Len(game.guess) = game.num
            /\ \A i \in 1..Len(read) - 1 : Len(read[i]) # game.num
            /\ Len(printed) = 2 * Len(read) - 1
            /\ \A j \in 1..Len(printed) :
                printed[j] = IF j % 2 = 1 THEN Prompt(game.num)
                             ELSE MustGuess(game.num)

\* the getGuess of the loop returns the third line it read
C9_Witness ==
    /\ game.pc = "counted"
    /\ Len(stdin) - callIn = 3
    /\ Len(game.guess) = game.num
    /\ Len(stdin[callIn + 1]) # game.num
    /\ Len(stdin[callIn + 2]) # game.num

(***************************************************************************)
(* Properties of the helper functions.                                     *)
(***************************************************************************)
\* C11: a stored value is a snapshot: whatever the caller does to its
\* object after the value was stored, the stored value is what it was.
C11_Snapshot ==
    snap.copy # 0 => DeepValue(heap, snap.copy) = snap.frozen

\* the literal opened at a position: its delimiter, and where the
\* delimiter that closes it starts (past the end when nothing closes it)
Delimiter(s, i) ==
    IF i + 2 <= Len(s) /\ s[i + 1] = s[i] /\ s[i + 2] = s[i]
    THEN <<s[i], s[i], s[i]>>
    ELSE <<s[i]>>

DelimiterAt(s, j, delim) ==
    /\ j + Len(delim) - 1 <= Len(s)
    /\ \A k \in 1..Len(delim) : s[j + k - 1] = delim[k]

RECURSIVE ClosingAt(_, _, _)
ClosingAt(s, j, delim) ==
    IF j > Len(s) THEN Len(s) + 1
    ELSE IF s[j] = "\\" THEN ClosingAt(s, j + 2, delim)
    ELSE IF DelimiterAt(s, j, delim) THEN j
    ELSE ClosingAt(s, j + 1, delim)

\* the positions from i on at which no literal is open (i is one): a
\* quote stands there where a literal opens
RECURSIVE OutsideFrom(_, _)
OutsideFrom(s, i) ==
    IF i > Len(s) THEN {}
    ELSE IF s[i] \in QuoteChars
    THEN {i} \cup OutsideFrom(s,
            ClosingAt(s, i + Len(Delimiter(s, i)), Delimiter(s, i))
                + Len(Delimiter(s, i)))
    ELSE {i} \cup OutsideFrom(s, i + 1)

C12_BothPathsTrimmed ==
    srcCall.called =>
        /\ srcCall.exact = strip(CallSamples[srcCall.sample].written)
        /\ srcCall.scanned = srcCall.exact

\* the call nodes of a line that call the function
MatchingOn(lineno, frame, function) ==
    {n \in NodeIds :
        /\ CallerAST[n].kind = "Call"
        /\ CallerAST[n].lineno = lineno
        /\ evaluate_in_context(FuncOf(n), frame) = function}

\* C13: when a call node whose own line is lineno matches the function,
\* find_call_nodes_on_line returns exactly the matching call nodes of that
\* line, each once, an inner call before the call that encloses it; a call
\* that starts on another line is returned only when none of the line
\* matches.
C13_OnLineCalls ==
    (walk.op = "find" /\ walk.called) =>
        LET matching ==
                MatchingOn(walk.lineno, Frame(walk.a), walk.function)
            nodes == walk.found.nodes
        IN  /\ matching # {} =>
                /\ walk.found.raised = ""
                /\ Range(nodes) = matching
                /\ Len(nodes) = Cardinality(matching)
                /\ \A i, j \in 1..Len(nodes) :
                       IsUnder(nodes[i], nodes[j]) => i < j
            /\ (\E i \in 1..Len(nodes) :
                    CallerAST[nodes[i]].lineno # walk.lineno)
                    => matching = {}

\* the nodes below a node
Descendants(node) == {n \in NodeIds : IsUnder(n, node)}

\* C14: walk_ast_in_order yields every descendant of the node exactly once,
\* the bodies of compound statements (with blocks too) included, and each
\* node only after all of its children.
C14_EveryDescendantOnce ==
    (walk.op = "walk" /\ walk.called) =>
        /\ Descendants(walk.node) \subseteq Range(walk.order)
        /\ \A i, j \in 1..Len(walk.order) :
               walk.order[i] = walk.order[j] => i = j
        /\ \A i, j \in 1..Len(walk.order) :
               assign_parents[walk.order[i]] = walk.order[j] => i < j

\* C18: every call of trace returns (the value it was given), whether
\* get_my_context resolved a full context or a location-only one: no call
\* of trace ends in an exception.
C18_TraceReturns ==
    call.function = "fn_trace" => call.raised = ""

(***************************************************************************)
(* Properties of test cases and suites.                                    *)
(***************************************************************************)
CheckKinds ==
    {"checkReturnValue", "checkPrintedLines", "checkPrintedFragment",
     "checkCustom"}

\* the step is a call of one of the four checks on case c
IsCheckOf(c) ==
    /\ nOps' = nOps + 1
    /\ check'.op \in CheckKinds
    /\ check'.case = c

HasFailed(c) == \E i \in 1..Len(cases[c].outcomes) : ~cases[c].outcomes[i]

\* a check of a case of the manager has failed
ManagerHasFailed(manager) ==
    \E c \in 1..Len(cases) : cases[c].manager = manager /\ HasFailed(c)

C17_ErrorFailsCheck ==
    [][\A c \in 1..Len(cases) :
        (/\ IsCheckOf(c)
         /\ check'.op # "checkCustom"
         /\ cases'[c].results[1].error # "None"
         /\ check'.returned # "None") =>
            /\ check'.raised = ""
            /\ check'.returned = "False"
            /\ cases'[c].outcomes = Append(cases[c].outcomes, FALSE)]_vars

\* C19: showSummary() and listCasesInSuite() without an argument succeed
\* after any calls of the suite functions and creations of cases; the list
\* holds the cases created while the current suite was current since its
\* last reset, and the summary of a suite without outcomes is 'No
\* expectations were established.'.
C19_ReportsCurrentSuite ==
    [][(nOps' = nOps + 1
        /\ check'.op \in {"showSummary", "listCasesInSuite"}) =>
            /\ check'.raised = ""
            /\ check'.op = "listCasesInSuite" =>
                    check'.report = created[currentTestSuite]
            /\ (check'.op = "showSummary"
                /\ OutcomesOf(created[currentTestSuite]) = <<>>) =>
                    check'.report
                        = <<"No expectations were established.">>]_vars

(***************************************************************************)
(* Properties of the source scanners.                                      *)
(***************************************************************************)
\* the backslashes of a literal that start an escape, up to the delimiter
\* that closes the literal
RECURSIVE EscapesTo(_, _, _)
EscapesTo(s, j, delim) ==
    IF j > Len(s) THEN {}
    ELSE IF s[j] = "\\" THEN {j} \cup EscapesTo(s, j + 2, delim)
    ELSE IF DelimiterAt(s, j, delim) THEN {}
    ELSE EscapesTo(s, j + 1, delim)

\* the escaping backslashes of all the literals opened from i on (no
\* literal is open at i)
RECURSIVE EscapesFrom(_, _)
EscapesFrom(s, i) ==
    IF i > Len(s) THEN {}
    ELSE IF s[i] \in QuoteChars
    THEN EscapesTo(s, i + Len(Delimiter(s, i)), Delimiter(s, i))
            \cup EscapesFrom(s,
                    ClosingAt(s, i + Len(Delimiter(s, i)), Delimiter(s, i))
                        + Len(Delimiter(s, i)))
    ELSE EscapesFrom(s, i + 1)

\* C21: inside a quoted string, unquoted_enumerate skips a backslash and
\* the character after it as one unit: neither is yielded, and whatever the
\* character after the backslash is (a quote, a backslash, a letter), the
\* pairs yielded are the same, so an escaped quote neither closes nor
\* opens a string.
C21_EscapedUnit ==
    (/\ scan.called
     /\ scan.start_index \in OutsideFrom(scan.src, 1) \cup {Len(scan.src) + 1})
        =>
        \A j \in EscapesFrom(scan.src, scan.start_index) :
            /\ \A k \in 1..Len(scan.result) :
                    scan.result[k][1] \notin {j, j + 1}
            /\ j + 1 <= Len(scan.src) =>
                \A c \in ScanAlphabet :
                    unquoted_enumerate([scan.src EXCEPT ![j + 1] = c],
                                       scan.start_index) = scan.result

\* an escaped quote inside a literal, the quote that closes the literal,
\* and a letter after it
C21_Witness ==
    /\ scan.called
    /\ scan.start_index = 1
    /\ scan.src = <<"'", "\\", "'", "'", "a">>
    /\ 2 \in EscapesFrom(scan.src, 1)
    /\ scan.result = <<<<5, "a">>>>

\* the positions from i on (no literal is open at i) that are outside the
\* strings and hold no quote
Unquoted(s, i) == {j \in OutsideFrom(s, i) : s[j] \notin QuoteChars}

\* how many of the positions hold the character
CountOf(s, positions, char) == Cardinality({j \in positions : s[j] = char})

\* s[i..k] holds as many closing as opening delimiters of the pair, the
\* ones inside strings left out
Balanced(s, i, k, openclose) ==
    CountOf(s, {j \in Unquoted(s, i) : j <= k}, openclose[1])
        = CountOf(s, {j \in Unquoted(s, i) : j <= k}, openclose[2])

\* the closing delimiters after i at which s[i..k] is balanced
Closings(s, i, openclose) ==
    {k \in Unquoted(s, i) :
        /\ k > i
        /\ s[k] = openclose[2]
        /\ Balanced(s, i, k, openclose)}

\* C22: for an opening delimiter at start_index outside any string,
\* find_closing_item returns the first closing delimiter k, outside the
\* strings, at which text[start_index..k] is balanced for the pair (so no
\* closing delimiter before k is unmatched), and None when there is none.
C22_MatchingCloser ==
    (/\ scan.called
     /\ scan.function = "find_closing_item"
     /\ scan.start_index \in OutsideFrom(scan.src, 1))
        =>
        LET closings == Closings(scan.src, scan.start_index, scan.openclose)
        IN  IF closings = {} THEN scan.result = 0
            ELSE /\ scan.result \in closings
                 /\ \A k \in closings : scan.result <= k

\* the closing parenthesis inside the string is passed over, and the one
\* after the string closes the parenthesis opened at the start
C22_Witness ==
    /\ scan.called
    /\ scan.function = "find_closing_item"
    /\ scan.src = <<"(", "\"", ")", "\"", ")">>
    /\ scan.start_index = 1
    /\ scan.result = 5

\* the brackets of s[i..k] outside the strings, in the order of the text
RECURSIVE BracketWord(_, _, _, _)
BracketWord(s, unquoted, j, k) ==
    IF j > k THEN <<>>
    ELSE IF j \in unquoted /\ s[j] \in {"(", ")", "[", "]", "{", "}"}
    THEN <<s[j]>> \o BracketWord(s, unquoted, j + 1, k)
    ELSE BracketWord(s, unquoted, j + 1, k)

\* an opening bracket directly followed by its closing bracket
MatchedAt(word, p) ==
    /\ p < Len(word)
    /\ <<word[p], word[p + 1]>> \in {<<"(", ")">>, <<"[", "]">>, <<"{", "}">>}

\* what is left of a word of brackets when matched neighbours are taken
\* out until none is left: the brackets that have no partner
RECURSIVE Unpaired(_)
Unpaired(word) ==
    IF \E p \in 1..Len(word) : MatchedAt(word, p)
    THEN Unpaired(CHOOSE rest \in
                    {SubSeq(word, 1, p - 1) \o SubSeq(word, p + 2, Len(word))
                     : p \in {q \in 1..Len(word) : MatchedAt(word, q)}} : TRUE)
    ELSE word

\* the commas from i on outside every string and every bracket opened at
\* or after i
TopLevelCommas(s, i) ==
    {j \in Unquoted(s, i) :
        /\ s[j] = ","
        /\ Unpaired(BracketWord(s, Unquoted(s, i), i, j)) = <<>>}

\* the closing brackets from i on that have no opening bracket at or
\* after i
UnmatchedClosers(s, i) ==
    {j \in Unquoted(s, i) :
        /\ s[j] \in {")", "]", "}"}
        /\ \E p \in 1..Len(Unpaired(BracketWord(s, Unquoted(s, i), i, j))) :
            Unpaired(BracketWord(s, Unquoted(s, i), i, j))[p]
                \in {")", "]", "}"}}

\* C23: find_unbracketed_comma(code, start), with start outside any
\* string, returns the first comma at or after start that is outside every
\* string and every bracket opened at or after start, and None when a
\* closing bracket without its opening bracket, or the end of the text,
\* comes before such a comma.
C23_TopLevelComma ==
    (/\ scan.called
     /\ scan.function = "find_unbracketed_comma"
     /\ scan.start_index \in OutsideFrom(scan.src, 1) \cup {Len(scan.src) + 1})
        =>
        LET commas == TopLevelCommas(scan.src, scan.start_index)
            closers == UnmatchedClosers(scan.src, scan.start_index)
        IN  IF \E j \in commas :
                    /\ \A k \in commas : j <= k
                    /\ \A k \in closers : j < k
            THEN /\ scan.result \in commas
                 /\ \A k \in commas : scan.result <= k
            ELSE scan.result = 0

\* the comma inside the parentheses is passed over
C23_Witness ==
    /\ scan.called
    /\ scan.function = "find_unbracketed_comma"
    /\ scan.src = <<"(", ",", ")", ",">>
    /\ scan.start_index = 1
    /\ scan.result = 4

\* the periods from i on that are outside the strings and have no period
\* next to them
AttributePeriods(s, i) ==
    {j \in Unquoted(s, i) :
        /\ s[j] = "."
        /\ j > 1 => s[j - 1] # "."
        /\ j < Len(s) => s[j + 1] # "."}

\* C24: find_nth_attribute_period(code, start, n) with n >= 0 and start
\* outside any string returns the n-th (counting from 0) period at or
\* after start that is outside the strings and not next to another period,
\* and None when there are fewer than n + 1 of them.
C24_NthPeriod ==
    (/\ scan.called
     /\ scan.function = "find_nth_attribute_period"
     /\ scan.start_index \in OutsideFrom(scan.src, 1) \cup {Len(scan.src) + 1})
        =>
        LET periods == AttributePeriods(scan.src, scan.start_index)
        IN  IF Cardinality(periods) < scan.n + 1 THEN scan.result = 0
            ELSE /\ scan.result \in periods
                 /\ Cardinality({j \in periods : j < scan.result}) = scan.n

\* the period at the start is number 0, the period inside the string is
\* passed over, and the last period is number 1
C24_Witness ==
    /\ scan.called
    /\ scan.function = "find_nth_attribute_period"
    /\ scan.src = <<".", "'", ".", "'", ".">>
    /\ scan.start_index = 1
    /\ scan.n = 1
    /\ scan.result = 5


(***************************************************************************)
(* Further properties of the walk and of the search of a line.             *)
(***************************************************************************)
\* C25: when no call of the line itself matches and the search looks
\* outwards from the nodes of the line, every matching enclosing call is in
\* the returned list at most once, however many nodes of the line it
\* encloses.
C25_EnclosingOnce ==
    (/\ walk.op = "find"
     /\ walk.called
     /\ MatchingOn(walk.lineno, Frame(walk.a), walk.function) = {})
        =>
        \A i, j \in 1..Len(walk.found.nodes) :
            walk.found.nodes[i] = walk.found.nodes[j] => i = j

\* a node and the nodes below it
Subtree(node) == {node} \cup Descendants(node)

\* where a node stands in the order walked
PlaceIn(order, n) == CHOOSE i \in 1..Len(order) : order[i] = n

\* every node of the first subtrees is walked before every node of the
\* second ones
AllBefore(order, first, second) ==
    \A r \in Range(first), t \in Range(second) :
        \A m \in Subtree(r), n \in Subtree(t) :
            PlaceIn(order, m) < PlaceIn(order, n)

\* C26: for a comprehension, walk_ast_in_order yields the iterable first,
\* then the loop variable (the target), then the filter conditions, then
\* the element expression.
C26_ComprehensionOrder ==
    (/\ walk.op = "walk"
     /\ walk.called
     /\ CallerAST[walk.node].kind = "ListComp")
        =>
        \A g \in Range(CallerAST[walk.node].f2) :
            LET target == CallerAST[g].f1
                iter == CallerAST[g].f2
                ifs == CallerAST[g].f3
                elt == CallerAST[walk.node].f1
            IN  /\ AllBefore(walk.order, iter, target)
                /\ AllBefore(walk.order, target, ifs)
                /\ AllBefore(walk.order, ifs, elt)
                /\ AllBefore(walk.order, target, elt)


(***************************************************************************)
(* Further properties of deepish_copy and of get_ref_src.                  *)
(***************************************************************************)
\* C27: when copy.deepcopy fails on a list or a tuple, deepish_copy
\* returns a new container of the same kind and size whose elements are
\* the deepish copies of the original's elements.
C27_SameKindContainer ==
    [][(/\ snap.copy = 0
        /\ snap'.copy # 0
        /\ heap[snap.root].kind \in {"list", "tuple"}
        /\ ~CanDeepCopy(heap, snap.root))
        =>
        /\ snap'.copy # snap.root
        /\ heap'[snap'.copy].kind = heap[snap.root].kind
        /\ Len(heap'[snap'.copy].items) = Len(heap[snap.root].items)
        /\ \A i \in 1..Len(heap[snap.root].items) :
            \E c \in {deepish_copy_in(heap, heap[snap.root].items[i])} :
                DeepValue(heap', heap'[snap'.copy].items[i])
                    = DeepValue(c.heap, c.id)]_vars

\* C28: for an attribute-access node, the scanner path of get_ref_src
\* returns the node's literal source text: it raises nothing, and its
\* result is what the exact-span path returns.
C28_ScannerIsExact ==
    srcCall.called =>
        /\ srcCall.raised = ""
        /\ srcCall.scanned = srcCall.exact


(***************************************************************************)
(* Further properties of test cases.                                       *)
(***************************************************************************)
\* C29: after TestCase._run, whether the payload returned or raised an
\* Exception, sys.stdout, sys.stdin and builtins.input are the objects
\* they were before the run (nested runs included), no exception leaves
\* _run, the payload's exception is in results['error'] with its
\* traceback, and results has a 'result' exactly when the payload returned
\* a value other than NoResult.
C29_RunRestoresStreams ==
    [][(check'.op = "run" /\ nOps' = nOps + 1)
        =>
        LET before == cases[check'.case]
            after == cases'[check'.case]
        IN  /\ streams' = streams
            /\ check'.raised = ""
            /\ after.results # <<>>
            /\ after.results[1].error # "None" <=> Raises(before)
            /\ after.results[1].traceback # 0 <=> Raises(before)
            /\ after.results[1].result # "NoResult"
                <=> (~Raises(before) /\ Value(before.payload) # "NoResult")
      ]_vars

\* two dictionaries are equivalent: their keys pair off, a key of both
\* with itself and any other key with a key it is close to, and the values
\* of paired keys are close
EquivalentDicts(val, ref) ==
    \E pairing \in [DOMAIN val -> DOMAIN ref] :
        /\ \A k \in DOMAIN val \cap DOMAIN ref : pairing[k] = k
        /\ \A k \in DOMAIN ref : \E j \in DOMAIN val : pairing[j] = k
        /\ \A j, k \in DOMAIN val : pairing[j] = pairing[k] => j = k
        /\ \A k \in DOMAIN val :
            /\ isclose(k, pairing[k])
            /\ isclose(val[k], ref[pairing[k]])

\* C30: compare on two dictionaries raises nothing and returns True
\* exactly when they are equivalent; for two dictionaries of the same size
\* that are not equivalent and whose key sets differ it returns False.
C30_DictsCompared ==
    check.called =>
        /\ check.raised = ""
        /\ check.returned = "True"
            <=> EquivalentDicts(check.val, check.ref)
        /\ (/\ Cardinality(DOMAIN check.val) = Cardinality(DOMAIN check.ref)
            /\ DOMAIN check.val # DOMAIN check.ref
            /\ ~EquivalentDicts(check.val, check.ref))
                => check.returned = "False"

=============================================================================
